---------------------------- MODULE Spec2Model ----------------------------
(***************************************************************************)
(* A model of the AccelLedger loading pipeline: the Inventory container,   *)
(* the validation suite and the load orchestrator.                         *)
(*                                                                         *)
(* Numbers are integers (a decimal scaled by a fixed power of ten); dates  *)
(* are positive integers (day numbers), 0 stands for a null date.          *)
(* The module holds several specifications over one set of variables; a    *)
(* specification leaves the variables of the others at their idle values.  *)
(***************************************************************************)
EXTENDS Integers, Sequences, FiniteSets, TLC

VARIABLES
    inv,        \* Inventory: the Map of the instance, key -> Position
    before,     \* the Map as it was before the last operation
    lastOp,     \* the last Inventory operation and its arguments
    ret,        \* what the last Inventory operation returned (or threw)
    undoes,     \* the last operation was addAmount(-x, c) right after addAmount(x, c)
    entries,    \* validate(): the entries it was called with
    vpc,        \* validate(): the index of the next validation, "idle", "done" or "threw"
    verrors,    \* validate(): the errors collected so far
    fs,             \* the files that exist: absolute filename -> what the parser makes of it
    lpc,            \* _load(): the step it is at, "idle", "done" or "threw"
    sourceStack,    \* _parseRecursive(): the work-list of sources
    filenamesSeen,  \* _parseRecursive(): the absolute filenames parsed
    optionsNull,    \* _parseRecursive(): optionsMap === null
    lentries,       \* _load(): the directives parsed, sorted, booked
    bookErrors,     \* _load(): the errors book() returned
    lerrors,        \* _load(): its errors list
    validated,      \* _load(): the value validate() was called with
    parsed,         \* _parseRecursive(): the filenames handed to parseFile, in call order
    includeList,    \* _parseRecursive(): optionsMap.include as recorded after the loop
    opEntries,      \* pad() / check(): the entries the function was called with
    opc,            \* pad() / check(): "idle", "call", "done" or "threw"
    opOut,          \* pad() / check(): the entries returned
    opErrors,       \* pad() / check(): the errors returned
    pquery,         \* getPrice(): the last lookup, its pair and date
    pquote          \* getPrice(): what the last lookup returned

invVars == <<inv, before, lastOp, ret, undoes>>

valVars == <<entries, vpc, verrors>>

loadVars ==
    <<fs, lpc, sourceStack, filenamesSeen, optionsNull, lentries, bookErrors, lerrors, validated,
      parsed, includeList>>

opVars == <<opEntries, opc, opOut, opErrors, pquery, pquote>>

vars ==
    <<inv, before, lastOp, ret, undoes, entries, vpc, verrors,
      fs, lpc, sourceStack, filenamesSeen, optionsNull, lentries, bookErrors, lerrors, validated,
      parsed, includeList, opEntries, opc, opOut, opErrors, pquery, pquote>>

----------------------------------------------------------------------------
(* Bounds *)

MaxUnits == 2
MaxOther == 1
MaxEntries == 3

MaxLedger == 4

----------------------------------------------------------------------------
(* core/number.js *)

ZERO == 0

sameSign_strict(number1, number2) == (number1 > 0) = (number2 > 0)

sameSign(number1, number2) == (number1 >= 0) = (number2 >= 0)

Abs(n) == IF n < 0 THEN -n ELSE n

----------------------------------------------------------------------------
(* core/position.js: Amount, Cost, Position *)

Currencies == {"USD", "HOOL"}

NullLabel == "<null>"

\* A Cost value, or null (isNull). date 0 is a null date; label NullLabel is
\* a null label, "" an empty one.
NullCost == [isNull |-> TRUE, number |-> 0, currency |-> "", date |-> 0, label |-> NullLabel]

MkCost(number, currency, date, label) ==
    [isNull |-> FALSE, number |-> number, currency |-> currency, date |-> date, label |-> label]

\* The lots of the model: two costs that differ only in a null / empty label.
LotA == MkCost(100, "USD", 1, NullLabel)

LotB == MkCost(100, "USD", 1, "")

Costs == {NullCost, LotA, LotB}

\* Cost.toString(): the number and currency, then the date when truthy, then
\* the quoted label when truthy. A part left out is 0 / "" here.
CostToString(cost) ==
    [isNull |-> FALSE, number |-> cost.number, currency |-> cost.currency,
     date |-> cost.date,
     label |-> IF cost.label = NullLabel \/ cost.label = "" THEN "" ELSE cost.label]

NullString == [isNull |-> TRUE, number |-> 0, currency |-> "", date |-> 0, label |-> ""]

MkAmount(number, currency) == [number |-> number, currency |-> currency]

MkPosition(units, cost) == [units |-> units, cost |-> cost]

----------------------------------------------------------------------------
(* core/inventory.js: Inventory *)

\* The key of addAmount: `${units.currency},${cost ? cost.toString() : "null"}`
InventoryKey(units, cost) ==
    [currency |-> units.currency,
     cost |-> IF cost.isNull THEN NullString ELSE CostToString(cost)]

MapSet(m, key, value) == [k \in (DOMAIN m) \cup {key} |-> IF k = key THEN value ELSE m[k]]

MapDelete(m, key) == [k \in (DOMAIN m) \ {key} |-> m[k]]

EmptyMap == [k \in {} |-> MkPosition(MkAmount(0, ""), NullCost)]

NoPosition == MkPosition(MkAmount(0, ""), NullCost)

\* The Map after the update of an existing entry, keeping a zero sum.
UpdateExisting_keepZero(m, key, number, units, cost) ==
    MapSet(m, key, MkPosition(MkAmount(number, units.currency), cost))

\* The Map after the update of an existing entry whose new number is `number`.
UpdateExisting(m, key, number, units, cost) ==
    IF number = ZERO
    THEN MapDelete(m, key)
    ELSE MapSet(m, key, MkPosition(MkAmount(number, units.currency), cost))

\* The Map after addAmount met no entry at the key, storing the amount negated.
InsertNew_negated(m, key, units, cost) ==
    IF units.number = ZERO
    THEN m
    ELSE MapSet(m, key, MkPosition(MkAmount(-units.number, units.currency), cost))

\* The Map after addAmount met no entry at the key.
InsertNew(m, key, units, cost) ==
    IF units.number = ZERO
    THEN m
    ELSE MapSet(m, key, MkPosition(units, cost))

\* Inventory.addAmount(units, cost) on the Map m: the Map after the call and
\* the returned [pos, booking].
addAmountOn(m, units, cost) ==
    LET key == InventoryKey(units, cost)
        has == key \in DOMAIN m
    IN  IF has
        THEN LET pos == m[key]
                 booking == IF ~sameSign(pos.units.number, units.number)
                            THEN "REDUCED" ELSE "AUGMENTED"
                 number == pos.units.number + units.number
             IN  [map |-> UpdateExisting(m, key, number, units, cost),
                  ret |-> [threw |-> FALSE, hasPos |-> TRUE, pos |-> pos, booking |-> booking]]
        ELSE [map |-> InsertNew(m, key, units, cost),
              ret |-> [threw |-> FALSE, hasPos |-> FALSE, pos |-> NoPosition,
                       booking |-> IF units.number = ZERO THEN "IGNORED" ELSE "CREATED"]]

\* Inventory.addPosition(position)
addPositionOn(m, position) == addAmountOn(m, position.units, position.cost)

\* The non-empty branch of addInventory: addPosition for each position of
\* other, in other's iteration order.
RECURSIVE AddAll(_, _)
AddAll(m, positions) ==
    IF positions = <<>>
    THEN m
    ELSE AddAll(addPositionOn(m, Head(positions)).map, Tail(positions))

\* Inventory.addInventory(other). On an empty receiver the loop destructures
\* `[key, value]` from other's iterator, which yields Position values (the
\* class overrides Symbol.iterator with values()): a Position is not
\* iterable, so the first element throws a TypeError before any set().
addInventoryOn(m, other) ==
    IF DOMAIN m = {}
    THEN [map |-> m, threw |-> other # <<>>]
    ELSE [map |-> AddAll(m, other), threw |-> FALSE]

\* checkInvariants(inv): TRUE when it returns true, FALSE when it throws.
checkInvariants(m) ==
    /\ Cardinality({InventoryKey(m[k].units, m[k].cost) : k \in DOMAIN m}) = Cardinality(DOMAIN m)
    /\ \A k \in DOMAIN m : m[k].units.number # ZERO

----------------------------------------------------------------------------
(* Inputs of the Inventory operations *)

\* The numbers handed to addAmount.
Numbers == {-2, -1, 0, 1, 2}

\* The (currency, cost) pairs of the positions: cash, and a commodity held
\* without cost or in one of the lots.
Holdings == {<<"USD", NullCost>>, <<"HOOL", NullCost>>, <<"HOOL", LotA>>, <<"HOOL", LotB>>}

\* The positions handed to addPosition, and held by the other inventories
\* handed to addInventory: position lists with distinct keys and non-zero
\* units, as an Inventory built by addAmount holds them, of at most
\* MaxOther positions.
OtherNumbers == {-1, 1}

OtherPositions ==
    {MkPosition(MkAmount(n, h[1]), h[2]) : n \in OtherNumbers, h \in Holdings}

RECURSIVE PositionLists(_)
PositionLists(n) ==
    IF n = 0
    THEN {<<>>}
    ELSE LET shorter == PositionLists(n - 1)
         IN  shorter \cup
             UNION {{Append(l, p) : p \in {q \in OtherPositions :
                                    \A i \in 1 .. Len(l) :
                                       InventoryKey(l[i].units, l[i].cost)
                                         # InventoryKey(q.units, q.cost)}}
                    : l \in shorter}

OtherInventories == PositionLists(MaxOther)

InBounds(m) == \A k \in DOMAIN m : Abs(m[k].units.number) <= MaxUnits

NoOp == [op |-> "new", units |-> MkAmount(0, ""), cost |-> NullCost]

NoRet == [threw |-> FALSE, hasPos |-> FALSE, pos |-> NoPosition, booking |-> "NONE"]

InvIdle ==
    /\ inv = EmptyMap
    /\ before = EmptyMap
    /\ lastOp = NoOp
    /\ ret = NoRet
    /\ undoes = FALSE

ValIdle ==
    /\ entries = <<>>
    /\ vpc = "idle"
    /\ verrors = <<>>

LoadIdle ==
    /\ fs = <<>>
    /\ lpc = "idle"
    /\ sourceStack = <<>>
    /\ filenamesSeen = {}
    /\ optionsNull = TRUE
    /\ lentries = <<>>
    /\ bookErrors = <<>>
    /\ lerrors = <<>>
    /\ validated = <<>>
    /\ parsed = <<>>
    /\ includeList = <<>>

OpIdle ==
    /\ opEntries = <<>>
    /\ opc = "idle"
    /\ opOut = <<>>
    /\ opErrors = <<>>
    /\ pquery = <<>>
    /\ pquote = <<>>

InvInit ==
    /\ ValIdle
    /\ LoadIdle
    /\ OpIdle
    /\ inv = EmptyMap
    /\ before = EmptyMap
    /\ lastOp = NoOp
    /\ ret = NoRet
    /\ undoes = FALSE

addAmount(units, cost) ==
    LET r == addAmountOn(inv, units, cost)
    IN  /\ InBounds(r.map)
        /\ inv' = r.map
        /\ before' = inv
        /\ ret' = r.ret
        /\ lastOp' = [op |-> "addAmount", units |-> units, cost |-> cost]
        /\ undoes' = (/\ lastOp.op = "addAmount"
                      /\ lastOp.cost = cost
                      /\ lastOp.units.currency = units.currency
                      /\ lastOp.units.number = -units.number)

addPosition(position) ==
    LET r == addPositionOn(inv, position)
    IN  /\ InBounds(r.map)
        /\ inv' = r.map
        /\ before' = inv
        /\ ret' = r.ret
        /\ lastOp' = [op |-> "addPosition", units |-> MkAmount(0, ""), cost |-> NullCost]
        /\ undoes' = FALSE

addInventory(other) ==
    LET r == addInventoryOn(inv, other)
    IN  /\ InBounds(r.map)
        /\ inv' = r.map
        /\ before' = inv
        /\ ret' = [NoRet EXCEPT !.threw = r.threw]
        /\ lastOp' = [op |-> "addInventory", units |-> MkAmount(0, ""), cost |-> NullCost]
        /\ undoes' = FALSE

InvNext ==
    \/ \E n \in Numbers, h \in Holdings : addAmount(MkAmount(n, h[1]), h[2]) /\ UNCHANGED <<valVars, loadVars, opVars>>
    \/ \E position \in OtherPositions : addPosition(position) /\ UNCHANGED <<valVars, loadVars, opVars>>
    \/ \E other \in OtherInventories : addInventory(other) /\ UNCHANGED <<valVars, loadVars, opVars>>

Spec == InvInit /\ [][InvNext]_vars

----------------------------------------------------------------------------
(* Claims about the Inventory *)

Keys(m) == DOMAIN m

\* The (key, units) pairs an inventory holds.
PositionSet(m) == {<<k, m[k].units>> : k \in DOMAIN m}

IsNegative(n) == n < 0

----------------------------------------------------------------------------
(* core/data.js: the directives *)

Bank == "Assets:Bank"

Opening == "Equity:Opening"

NoAmount == MkAmount(0, "")

\* A directive: the class name (constructor.name) is `type`; a field a class
\* does not have holds its idle value. An element that is an Array (not a
\* directive) has type "Array" and its length.
\* Balance.tolerance === null
NoTolerance == -1

MkEntry(type, date, account) ==
    [type |-> type, date |-> date, lineno |-> 0, account |-> account,
     sourceAccount |-> "", hasCurrencies |-> FALSE, currencies |-> {},
     postings |-> <<>>, amount |-> NoAmount, currency |-> "", flag |-> "",
     length |-> 0, tolerance |-> NoTolerance]

Open(date, account) == MkEntry("Open", date, account)

OpenWith(date, account, currencies) ==
    [MkEntry("Open", date, account) EXCEPT !.hasCurrencies = TRUE, !.currencies = currencies]

Close(date, account) == MkEntry("Close", date, account)

Note(date, account) == MkEntry("Note", date, account)

Pad(date, account, sourceAccount) ==
    [MkEntry("Pad", date, account) EXCEPT !.sourceAccount = sourceAccount]

Balance(date, account, amount) ==
    [MkEntry("Balance", date, account) EXCEPT !.amount = amount]

BalanceWithin(date, account, amount, tolerance) ==
    [MkEntry("Balance", date, account) EXCEPT !.amount = amount, !.tolerance = tolerance]

Commodity(date, currency) ==
    [MkEntry("Commodity", date, "") EXCEPT !.currency = currency]

Transaction(date, flag, postings) ==
    [MkEntry("Transaction", date, "") EXCEPT !.flag = flag, !.postings = postings]

ArrayValue(length) == [MkEntry("Array", 0, "") EXCEPT !.length = length]

NoPrice == [isNull |-> TRUE, number |-> 0, currency |-> ""]

MkPrice(number, currency) == [isNull |-> FALSE, number |-> number, currency |-> currency]

\* Posting(account, units, cost, price): numberMissing is units.number = MISSING,
\* missing the other fields that hold MISSING.
Posting(account, units, cost, price) ==
    [account |-> account, units |-> units, numberMissing |-> FALSE,
     cost |-> cost, price |-> price, missing |-> {}]

SimplePosting(account, number, currency) ==
    Posting(account, MkAmount(number, currency), NullCost, NoPrice)

MissingPosting(account, currency) ==
    [Posting(account, MkAmount(0, currency), NullCost, NoPrice) EXCEPT !.numberMissing = TRUE]

\* A posting with MISSING in some of units.currency, cost.number,
\* cost.currency, cost.date, cost.label, price.number, price.currency.
WithMissing(posting, fields) == [posting EXCEPT !.missing = fields]

\* The entries with meta.lineno set to their line in the file.
Numbered(es) == [i \in 1 .. Len(es) |-> [es[i] EXCEPT !.lineno = i]]

----------------------------------------------------------------------------
(* ops/validation.js *)

ValidationError(validation, message, entry, account) ==
    [validation |-> validation, message |-> message, entry |-> entry, account |-> account]

\* Directive types that are allowed after the account is closed.
ALLOW_AFTER_CLOSE == {"Transaction"}

\* validateOpenClose: the date test of a Close against its Open, on or before.
CloseBeforeOpen_orSame(closeDate, openDate) == closeDate <= openDate

\* validateOpenClose: the date test of a Close against its Open.
CloseBeforeOpen(closeDate, openDate) == closeDate < openDate

\* validateOpenClose, from entry i on. openMap and closeMap map an account to
\* the index of the entry stored for it. Reading .date of a missing openMap
\* entry throws a TypeError, which the catch turns into "Unopened account".
RECURSIVE OpenCloseWalk(_, _, _, _, _)
OpenCloseWalk(es, i, openMap, closeMap, errs) ==
    IF i > Len(es)
    THEN errs
    ELSE LET entry == es[i]
             err(message) == ValidationError("validateOpenClose", message, i, entry.account)
         IN  IF entry.type = "Open"
             THEN IF entry.account \in DOMAIN openMap
                  THEN OpenCloseWalk(es, i + 1, openMap, closeMap,
                                     Append(errs, err("Duplicate open directive")))
                  ELSE OpenCloseWalk(es, i + 1, openMap @@ (entry.account :> i), closeMap, errs)
             ELSE IF entry.type = "Close"
             THEN IF entry.account \in DOMAIN closeMap
                  THEN OpenCloseWalk(es, i + 1, openMap, closeMap,
                                     Append(errs, err("Duplicate close directive")))
                  ELSE LET newErrs ==
                               IF entry.account \in DOMAIN openMap
                               THEN IF CloseBeforeOpen(entry.date, es[openMap[entry.account]].date)
                                    THEN Append(errs, err("closing date appears before opening date"))
                                    ELSE errs
                               ELSE Append(errs, err("Unopened account is being closed"))
                       IN  OpenCloseWalk(es, i + 1, openMap, closeMap @@ (entry.account :> i), newErrs)
             ELSE OpenCloseWalk(es, i + 1, openMap, closeMap, errs)

EmptyIndex == [a \in {} |-> 0]

validateOpenClose(es) == OpenCloseWalk(es, 1, EmptyIndex, EmptyIndex, <<>>)

\* The elements of a sequence, each once, in the order of first occurrence
\* (the iteration order of new Set(array)).
RECURSIVE Dedup(_)
Dedup(seq) ==
    IF seq = <<>>
    THEN <<>>
    ELSE LET front == Dedup(SubSeq(seq, 1, Len(seq) - 1))
             last == seq[Len(seq)]
         IN  IF \E k \in 1 .. Len(front) : front[k] = last THEN front ELSE Append(front, last)

SetObject == "[object Set]"

\* getters.getEntryAccounts(entry), in iteration order. For an Array the
\* result is a Set of the Set objects its items map to (flatMap does not
\* flatten a Set): one distinct object per item, none of them an account.
getEntryAccounts(entry) ==
    IF entry.type = "Transaction"
    THEN Dedup([k \in 1 .. Len(entry.postings) |-> entry.postings[k].account])
    ELSE IF entry.type = "Pad"
    THEN Dedup(<<entry.account, entry.sourceAccount>>)
    ELSE IF entry.type \in {"Open", "Close", "Balance", "Note", "Document"}
    THEN <<entry.account>>
    ELSE IF entry.type \in {"Commodity", "Event", "Query", "Price", "Custom"}
    THEN <<>>
    ELSE IF entry.type = "Array"
    THEN [k \in 1 .. entry.length |-> SetObject]
    ELSE IF entry.account # "" THEN <<entry.account>> ELSE <<>>

\* validateActiveAccounts: the active set after a Close that is ignored.
ActiveAfterClose_kept(activeSet, account) == activeSet

\* validateActiveAccounts: the active set after a Close.
ActiveAfterClose(activeSet, account) == activeSet \ {account}

\* The errors of one directive that is neither Open nor Close, for its
\* accounts from the k-th on.
RECURSIVE ActiveAccountErrors(_, _, _, _, _, _)
ActiveAccountErrors(entry, i, accounts, k, activeSet, openedAccounts) ==
    IF k > Len(accounts)
    THEN <<>>
    ELSE LET account == accounts[k]
             rest == ActiveAccountErrors(entry, i, accounts, k + 1, activeSet, openedAccounts)
         IN  IF account \notin activeSet
             THEN IF entry.type \in ALLOW_AFTER_CLOSE /\ account \in openedAccounts
                  THEN rest
                  ELSE <<ValidationError("validateActiveAccounts",
                                         IF account \in openedAccounts
                                         THEN "Invalid reference to inactive account"
                                         ELSE "Invalid reference to unknown account",
                                         i, account)>> \o rest
             ELSE rest

RECURSIVE ActiveWalk(_, _, _, _, _)
ActiveWalk(es, i, activeSet, openedAccounts, errs) ==
    IF i > Len(es)
    THEN errs
    ELSE LET entry == es[i]
         IN  IF entry.type = "Open"
             THEN ActiveWalk(es, i + 1, activeSet \cup {entry.account},
                             openedAccounts \cup {entry.account}, errs)
             ELSE IF entry.type = "Close"
             THEN ActiveWalk(es, i + 1, ActiveAfterClose(activeSet, entry.account),
                             openedAccounts, errs)
             ELSE ActiveWalk(es, i + 1, activeSet, openedAccounts,
                             errs \o ActiveAccountErrors(entry, i, getEntryAccounts(entry), 1,
                                                         activeSet, openedAccounts))

validateActiveAccounts(es) == ActiveWalk(es, 1, {}, {}, <<>>)

\* validateCurrencyConstraints: the Open registered for an account, the last
\* one in the list with a (truthy) currencies list; 0 when there is none.
CurrencyOpen(es, account) ==
    LET opens == {i \in 1 .. Len(es) :
                   /\ es[i].type = "Open"
                   /\ es[i].hasCurrencies
                   /\ es[i].account = account}
    IN  IF opens = {} THEN 0 ELSE CHOOSE i \in opens : \A j \in opens : j <= i

\* The test of a posting against the Open's list, inverted.
PostingViolates_inverted(openEntry, posting) == posting.units.currency \in openEntry.currencies

\* The test of a posting against the Open's list.
PostingViolates(openEntry, posting) == posting.units.currency \notin openEntry.currencies

RECURSIVE CurrencyPostingErrors(_, _, _)
CurrencyPostingErrors(es, i, k) ==
    IF k > Len(es[i].postings)
    THEN <<>>
    ELSE LET posting == es[i].postings[k]
             o == CurrencyOpen(es, posting.account)
             rest == CurrencyPostingErrors(es, i, k + 1)
         IN  IF o # 0 /\ PostingViolates(es[o], posting)
             THEN <<ValidationError("validateCurrencyConstraints", "Invalid currency",
                                    i, posting.account)>> \o rest
             ELSE rest

RECURSIVE CurrencyWalk(_, _)
CurrencyWalk(es, i) ==
    IF i > Len(es)
    THEN <<>>
    ELSE (IF es[i].type = "Transaction" THEN CurrencyPostingErrors(es, i, 1) ELSE <<>>)
         \o CurrencyWalk(es, i + 1)

validateCurrencyConstraints(es) == CurrencyWalk(es, 1)

\* validateDuplicateBalances: a Balance is compared with the first Balance of
\* the same (account, currency, date).
validateDuplicateBalances(es) ==
    LET isBalance(i) == es[i].type = "Balance"
        sameKey(i, j) == /\ es[i].account = es[j].account
                         /\ es[i].amount.currency = es[j].amount.currency
                         /\ es[i].date = es[j].date
        first(i) == CHOOSE j \in 1 .. i :
                      /\ isBalance(j) /\ sameKey(i, j)
                      /\ \A h \in 1 .. (j - 1) : ~(isBalance(h) /\ sameKey(i, h))
        bad(i) == isBalance(i) /\ first(i) # i /\ es[i].amount # es[first(i)].amount
        F[i \in 0 .. Len(es)] ==
            IF i = 0 THEN <<>>
            ELSE IF bad(i)
                 THEN Append(F[i - 1],
                             ValidationError("validateDuplicateBalances",
                                             "Duplicate balance assertion with different amounts",
                                             i, es[i].account))
                 ELSE F[i - 1]
    IN  F[Len(es)]

validateDuplicateCommodities(es) ==
    LET dup(i) == /\ es[i].type = "Commodity"
                  /\ \E j \in 1 .. (i - 1) :
                        es[j].type = "Commodity" /\ es[j].currency = es[i].currency
        F[i \in 0 .. Len(es)] ==
            IF i = 0 THEN <<>>
            ELSE IF dup(i)
                 THEN Append(F[i - 1],
                             ValidationError("validateDuplicateCommodities",
                                             "Duplicate commodity directives", i, ""))
                 ELSE F[i - 1]
    IN  F[Len(es)]


----------------------------------------------------------------------------
(* core/interpolate.js, as validateCheckTransactionBalances uses it *)

\* getWeight(posting): "Simplified implementation", the units whatever the
\* cost and the price.
getWeight(posting) == posting.units

\* computeResidual(postings): the module's own Inventory, a plain list with
\* one {units} element per posting.
computeResidual(postings) == [k \in 1 .. Len(postings) |-> getWeight(postings[k])]

\* validateCheckTransactionBalances: residual is interpolate's own Inventory,
\* which has no isSmall method, so `residual.isSmall(tolerances)` throws a
\* TypeError at the first Transaction of the list.
validateCheckTransactionBalances(es) ==
    [threw |-> \E i \in 1 .. Len(es) : es[i].type = "Transaction", errors |-> <<>>]

----------------------------------------------------------------------------
(* ops/validation.js: validate() *)

BASIC_VALIDATIONS ==
    <<"validateOpenClose", "validateActiveAccounts", "validateCurrencyConstraints",
      "validateDuplicateBalances", "validateDuplicateCommodities",
      "validateCheckTransactionBalances">>

\* The validation after `name` in validationTests, "done" after the last.
NextValidation(name) ==
    LET k == CHOOSE j \in 1 .. Len(BASIC_VALIDATIONS) : BASIC_VALIDATIONS[j] = name
    IN  IF k = Len(BASIC_VALIDATIONS) THEN "done" ELSE BASIC_VALIDATIONS[k + 1]

\* One validation function of the suite on the entries.
RunValidation(name, es) ==
    IF name = "validateOpenClose" THEN [threw |-> FALSE, errors |-> validateOpenClose(es)]
    ELSE IF name = "validateActiveAccounts" THEN [threw |-> FALSE, errors |-> validateActiveAccounts(es)]
    ELSE IF name = "validateCurrencyConstraints" THEN [threw |-> FALSE, errors |-> validateCurrencyConstraints(es)]
    ELSE IF name = "validateDuplicateBalances" THEN [threw |-> FALSE, errors |-> validateDuplicateBalances(es)]
    ELSE IF name = "validateDuplicateCommodities" THEN [threw |-> FALSE, errors |-> validateDuplicateCommodities(es)]
    ELSE validateCheckTransactionBalances(es)

\* validate(entries, optionsMap) from the validation `name` on, with the
\* errors collected so far: the returned list, or threw.
RECURSIVE ValidateFrom(_, _, _)
ValidateFrom(name, es, errs) ==
    IF name = "done"
    THEN [threw |-> FALSE, errors |-> errs]
    ELSE LET r == RunValidation(name, es)
         IN  IF r.threw
             THEN [threw |-> TRUE, errors |-> <<>>]
             ELSE ValidateFrom(NextValidation(name), es, errs \o r.errors)

validate(es) == ValidateFrom(BASIC_VALIDATIONS[1], es, <<>>)

\* One iteration of the loop of validate(): the validation function vpc names.
ValidationStep(name) ==
    /\ vpc = name
    /\ LET r == RunValidation(name, entries)
       IN  IF r.threw
           THEN vpc' = "threw" /\ verrors' = verrors
           ELSE vpc' = NextValidation(name) /\ verrors' = verrors \o r.errors
    /\ UNCHANGED <<entries, invVars, loadVars, opVars>>

RunValidateOpenClose == ValidationStep("validateOpenClose")

RunValidateActiveAccounts == ValidationStep("validateActiveAccounts")

RunValidateCurrencyConstraints == ValidationStep("validateCurrencyConstraints")

RunValidateDuplicateBalances == ValidationStep("validateDuplicateBalances")

RunValidateDuplicateCommodities == ValidationStep("validateDuplicateCommodities")

RunValidateCheckTransactionBalances == ValidationStep("validateCheckTransactionBalances")

ValNext ==
    \/ RunValidateOpenClose
    \/ RunValidateActiveAccounts
    \/ RunValidateCurrencyConstraints
    \/ RunValidateDuplicateBalances
    \/ RunValidateDuplicateCommodities
    \/ RunValidateCheckTransactionBalances

\* The lists of at most n elements of U.
ListsUpTo(U, n) == UNION {[1 .. k -> U] : k \in 0 .. n}

IsDateSorted(es) == \A i \in 1 .. (Len(es) - 1) : es[i].date <= es[i + 1].date

\* validate() is called with one of the lists.
ValInit(lists) ==
    /\ InvIdle
    /\ LoadIdle
    /\ OpIdle
    /\ entries \in lists
    /\ vpc = BASIC_VALIDATIONS[1]
    /\ verrors = <<>>

\* Opens, Closes and Notes of two accounts on two days, sorted by date.
OpenCloseDirectives ==
    {Open(d, a) : d \in {1, 2}, a \in {Bank, Opening}}
    \cup {Close(d, a) : d \in {1, 2}, a \in {Bank, Opening}}
    \cup {Note(2, Bank)}

OpenCloseLists == {es \in ListsUpTo(OpenCloseDirectives, MaxEntries) : IsDateSorted(es)}

SpecOpenClose == ValInit(OpenCloseLists) /\ [][ValNext]_vars


\* Directives of every kind on one day, for the walk over the active accounts.
ActiveDirectives ==
    {Open(1, Bank), Open(1, Opening), Close(1, Bank), Note(1, Bank),
     Pad(1, Bank, Opening), Commodity(1, "USD"),
     Transaction(1, "*", <<SimplePosting(Bank, 1, "USD"), SimplePosting(Opening, -1, "USD")>>),
     Transaction(1, "*", <<SimplePosting(Bank, 1, "USD"), SimplePosting(Bank, -1, "USD")>>)}

ActiveLists == ListsUpTo(ActiveDirectives, MaxEntries)

SpecActive == ValInit(ActiveLists) /\ [][ValNext]_vars

\* Opens with and without a currency list, and Transactions in two currencies.
CurrencyDirectives ==
    {OpenWith(1, Bank, {"USD"}), OpenWith(1, Opening, {"USD", "EUR"}), Open(1, Opening),
     Open(1, Bank),
     Transaction(1, "*", <<SimplePosting(Bank, 1, "USD"), SimplePosting(Opening, -1, "USD")>>),
     Transaction(1, "*", <<SimplePosting(Bank, 1, "EUR"), SimplePosting(Opening, -1, "EUR")>>),
     Transaction(1, "*", <<SimplePosting(Bank, 1, "EUR"), SimplePosting(Bank, -1, "EUR")>>),
     Transaction(1, "*", <<SimplePosting(Opening, 1, "HOOL"), SimplePosting(Bank, -1, "USD")>>)}

CurrencyLists == ListsUpTo(CurrencyDirectives, MaxEntries)

SpecCurrency == ValInit(CurrencyLists) /\ [][ValNext]_vars

\* Transactions that balance or do not, by units, at cost and at a price.
BalanceDirectives ==
    {Open(1, Bank), Open(1, Opening), Note(1, Bank), Commodity(1, "USD"),
     Transaction(1, "*", <<SimplePosting(Bank, 10, "USD"), SimplePosting(Opening, -10, "USD")>>),
     Transaction(1, "*", <<SimplePosting(Bank, 10, "USD"), SimplePosting(Opening, -5, "USD")>>),
     Transaction(1, "*", <<Posting(Bank, MkAmount(2, "HOOL"), MkCost(5, "USD", 1, NullLabel), NoPrice),
                           SimplePosting(Opening, -10, "USD")>>),
     Transaction(1, "*", <<Posting(Bank, MkAmount(2, "HOOL"), NullCost, MkPrice(5, "USD")),
                           SimplePosting(Opening, -2, "HOOL")>>)}

BalanceLists == ListsUpTo(BalanceDirectives, MaxEntries)

SpecBalances == ValInit(BalanceLists) /\ [][ValNext]_vars

----------------------------------------------------------------------------
(* Claims about the validations *)

\* The validation `name` of the running validate() has returned.
HasRun(name) ==
    /\ vpc # "idle"
    /\ \/ vpc = "done"
       \/ \E j, k \in 1 .. Len(BASIC_VALIDATIONS) :
             /\ BASIC_VALIDATIONS[j] = name
             /\ BASIC_VALIDATIONS[k] = vpc
             /\ j < k
       \/ vpc = "threw" /\ name # "validateCheckTransactionBalances"

\* The errors a validation has reported, as positions of verrors.
ErrorsOf(name) == {k \in 1 .. Len(verrors) : verrors[k].validation = name}

\* The entries a validation has reported an error for.
ReportedEntries(name) == {verrors[k].entry : k \in ErrorsOf(name)}

IsOpenOf(i, a) == entries[i].type = "Open" /\ entries[i].account = a

IsCloseOf(i, a) == entries[i].type = "Close" /\ entries[i].account = a

Indices == 1 .. Len(entries)

OpensOf(a) == {i \in Indices : IsOpenOf(i, a)}

ClosesOf(a) == {i \in Indices : IsCloseOf(i, a)}

Accounts == {Bank, Opening}

\* The first Open of an account in the list: the account's Open.
FirstOpen(a) == CHOOSE i \in OpensOf(a) : \A j \in OpensOf(a) : i <= j

\* The cases of C8 that do not depend on the date of the Close.
C8_CommonCases ==
    /\ \A a \in Accounts : \A i \in OpensOf(a) :
          (\E j \in OpensOf(a) : j < i) => i \in ReportedEntries("validateOpenClose")
    /\ \A a \in Accounts : \A i \in ClosesOf(a) :
          (\E j \in ClosesOf(a) : j < i) => i \in ReportedEntries("validateOpenClose")
    /\ \A a \in Accounts : \A i \in ClosesOf(a) :
          OpensOf(a) = {} => i \in ReportedEntries("validateOpenClose")

\* C8 as stated: an error for every duplicate Open, every duplicate Close,
\* every Close of an account without Open and every Close that is not
\* strictly after the Open date; no error for an account with exactly one
\* Open and at most one Close dated strictly after the Open.
C8_Original ==
    HasRun("validateOpenClose") =>
        /\ C8_CommonCases
        /\ \A a \in Accounts : \A i \in ClosesOf(a) :
              (OpensOf(a) # {} /\ ~(entries[i].date > entries[FirstOpen(a)].date))
                  => i \in ReportedEntries("validateOpenClose")
        /\ \A a \in Accounts :
              (/\ Cardinality(OpensOf(a)) = 1
               /\ Cardinality(ClosesOf(a)) <= 1
               /\ \A c \in ClosesOf(a) : entries[c].date > entries[FirstOpen(a)].date)
              => (OpensOf(a) \cup ClosesOf(a)) \cap ReportedEntries("validateOpenClose") = {}

\* C8 (amended): an error for every duplicate Open, every duplicate Close,
\* every Close of an account without Open and every Close dated strictly
\* before the Open; no error for an account with exactly one Open and at
\* most one Close that follows the Open in the list and is dated on or after
\* it. An error is reported for nothing else than a duplicate, a Close with
\* no Open before it in the list or a Close dated before the Open.
C8_OpenCloseErrors ==
    HasRun("validateOpenClose") =>
        /\ C8_CommonCases
        /\ \A a \in Accounts : \A i \in ClosesOf(a) :
              (OpensOf(a) # {} /\ entries[i].date < entries[FirstOpen(a)].date)
                  => i \in ReportedEntries("validateOpenClose")
        /\ \A a \in Accounts :
              (/\ Cardinality(OpensOf(a)) = 1
               /\ Cardinality(ClosesOf(a)) <= 1
               /\ \A c \in ClosesOf(a) :
                     c > FirstOpen(a) /\ entries[c].date >= entries[FirstOpen(a)].date)
              => (OpensOf(a) \cup ClosesOf(a)) \cap ReportedEntries("validateOpenClose") = {}
        /\ \A i \in ReportedEntries("validateOpenClose") :
              LET a == entries[i].account
              IN  \/ IsOpenOf(i, a) /\ \E j \in OpensOf(a) : j < i
                  \/ IsCloseOf(i, a) /\ \E j \in ClosesOf(a) : j < i
                  \/ IsCloseOf(i, a) /\ ~\E j \in OpensOf(a) : j < i
                  \/ IsCloseOf(i, a) /\ entries[i].date < entries[FirstOpen(a)].date

\* An account opened and closed on the same day, the Close after the Open,
\* passes; a Close dated before the Open of the other account is reported.
C8_Witness ==
    /\ HasRun("validateOpenClose")
    /\ \E o, c \in Indices :
          /\ o < c
          /\ IsOpenOf(o, Bank) /\ IsCloseOf(c, Bank)
          /\ entries[o].date = entries[c].date
          /\ OpensOf(Bank) = {o} /\ ClosesOf(Bank) = {c}
          /\ c \notin ReportedEntries("validateOpenClose")


\* The accounts a directive refers to.
References(entry) ==
    CASE entry.type = "Transaction" -> {entry.postings[k].account : k \in 1 .. Len(entry.postings)}
      [] entry.type = "Pad" -> {entry.account, entry.sourceAccount}
      [] entry.type \in {"Open", "Close", "Balance", "Note", "Document"} -> {entry.account}
      [] OTHER -> {}

\* Account a has an Open before position i of the list.
OpenedBefore(i, a) == \E j \in OpensOf(a) : j < i

\* Account a is active at position i: an Open precedes i and no Close lies
\* between that Open and i.
ActiveAt(i, a) ==
    \E j \in OpensOf(a) : j < i /\ ~\E c \in ClosesOf(a) : j < c /\ c < i

\* The references the active-accounts validation has to report.
InactiveReferences ==
    {<<i, a>> \in Indices \X Accounts :
        /\ entries[i].type \notin {"Open", "Close"}
        /\ a \in References(entries[i])
        /\ ~ActiveAt(i, a)
        /\ ~(entries[i].type = "Transaction" /\ OpenedBefore(i, a))}

ReportedReferences ==
    {<<verrors[k].entry, verrors[k].account>> : k \in ErrorsOf("validateActiveAccounts")}

\* C9: the active-accounts validation reports an error exactly for the
\* references, by a directive other than Open and Close, to an account that
\* is not active at that point, except for a Transaction on an account opened
\* earlier; one error per reference. When the open/close and active-accounts
\* validations report nothing, every account a directive other than an Open
\* refers to has an Open earlier in the list.
C9_ActiveAccounts ==
    HasRun("validateActiveAccounts") =>
        /\ ReportedReferences = InactiveReferences
        /\ Cardinality(ErrorsOf("validateActiveAccounts")) = Cardinality(InactiveReferences)
        /\ (ErrorsOf("validateActiveAccounts") = {} /\ ErrorsOf("validateOpenClose") = {})
              => \A i \in Indices : \A a \in References(entries[i]) :
                    entries[i].type # "Open" => OpenedBefore(i, a)

\* A Transaction on an account closed before it passes.
C9_Witness ==
    /\ HasRun("validateActiveAccounts")
    /\ \E i \in Indices :
          /\ entries[i].type = "Transaction"
          /\ Bank \in References(entries[i])
          /\ ~ActiveAt(i, Bank) /\ OpenedBefore(i, Bank)
          /\ <<i, Bank>> \notin ReportedReferences

\* The postings of Transaction i on account a in a currency the account's
\* one Open does not list.
OffendingPostings(i, a) ==
    {k \in 1 .. Len(entries[i].postings) :
        /\ entries[i].postings[k].account = a
        /\ OpensOf(a) # {}
        /\ entries[FirstOpen(a)].hasCurrencies
        /\ entries[i].postings[k].units.currency \notin entries[FirstOpen(a)].currencies}

CurrencyErrors(i, a) ==
    {k \in ErrorsOf("validateCurrencyConstraints") :
        verrors[k].entry = i /\ verrors[k].account = a}

\* C10: for accounts with one Open, the currency validation reports one
\* error per posting whose currency the Open's list lacks, and none for any
\* other posting: a Transaction with one such posting yields exactly one
\* error, and postings on accounts whose Open has no list yield none.
C10_CurrencyConstraints ==
    HasRun("validateCurrencyConstraints") =>
        /\ \A k \in ErrorsOf("validateCurrencyConstraints") :
              verrors[k].entry \in Indices /\ entries[verrors[k].entry].type = "Transaction"
        /\ \A i \in Indices : \A a \in Accounts :
              (entries[i].type = "Transaction" /\ Cardinality(OpensOf(a)) <= 1)
                  => Cardinality(CurrencyErrors(i, a)) = Cardinality(OffendingPostings(i, a))

\* A Transaction with exactly one posting in a currency its account does not
\* list, and another posting on an account without list, yields one error.
C10_Witness ==
    /\ HasRun("validateCurrencyConstraints")
    /\ \E i \in Indices :
          /\ entries[i].type = "Transaction"
          /\ Cardinality(OpensOf(Bank)) = 1 /\ Cardinality(OpensOf(Opening)) = 1
          /\ ~entries[FirstOpen(Opening)].hasCurrencies
          /\ Opening \in References(entries[i])
          /\ Cardinality(OffendingPostings(i, Bank)) = 1
          /\ Cardinality(ErrorsOf("validateCurrencyConstraints")) = 1

\* The weight of a posting as the specification defines it: cost times units
\* when the posting has a cost, else price times units when it has a price,
\* else its units.
SpecWeight(posting) ==
    CASE posting.cost # NullCost ->
            MkAmount(posting.cost.number * posting.units.number, posting.cost.currency)
      [] posting.cost = NullCost /\ posting.price # NoPrice ->
            MkAmount(posting.price.number * posting.units.number, posting.price.currency)
      [] OTHER -> posting.units

RECURSIVE SumWeights(_, _, _)
SumWeights(postings, k, currency) ==
    IF k = 0 THEN 0
    ELSE (IF SpecWeight(postings[k]).currency = currency
          THEN SpecWeight(postings[k]).number ELSE 0)
         + SumWeights(postings, k - 1, currency)

\* Whole amounts carry no fractional digits, so the inferred tolerance is 0.
Tolerance == 0

\* The weights of the Transaction fail to sum to zero in some currency.
Unbalanced(entry) ==
    \E k \in 1 .. Len(entry.postings) :
        Abs(SumWeights(entry.postings, Len(entry.postings),
                       SpecWeight(entry.postings[k]).currency)) > Tolerance

\* validate() is over, normally or by an exception.
ValidateOver == vpc \in {"done", "threw"}

\* C4: once the validation is over, a Transaction has a balance error
\* exactly when the absolute sum of its weights exceeds the tolerance in
\* some currency.
C4_TransactionBalances ==
    ValidateOver =>
        \A i \in Indices :
            entries[i].type = "Transaction" =>
                (i \in ReportedEntries("validateCheckTransactionBalances")
                    <=> Unbalanced(entries[i]))


----------------------------------------------------------------------------
(* core/data.js: the sort key of a directive *)

SORT_ORDER(type) ==
    CASE type = "Open" -> -2
      [] type = "Balance" -> -1
      [] type = "Document" -> 1
      [] type = "Close" -> 2
      [] OTHER -> 0

entrySortKey(entry) == <<entry.date, SORT_ORDER(entry.type), entry.lineno>>

\* The comparison sortEntries makes of two keys: keyA is not after keyB.
KeyLeq(keyA, keyB) ==
    \/ keyA[1] < keyB[1]
    \/ keyA[1] = keyB[1] /\ keyA[2] < keyB[2]
    \/ keyA[1] = keyB[1] /\ keyA[2] = keyB[2] /\ keyA[3] <= keyB[3]

----------------------------------------------------------------------------
(* parser/booking.js *)

BookingError(message, entry) == ValidationError("BookingError", message, entry, "")

\* The fields of a posting that validateMissingEliminated looks at.
CheckedFields(posting) ==
    {"units.currency"} \cup
        (IF posting.cost.isNull
         THEN {}
         ELSE {"cost.number", "cost.currency", "cost.date", "cost.label"})

HasMissing(entry) ==
    \E k \in 1 .. Len(entry.postings) :
        \/ entry.postings[k].numberMissing
        \/ entry.postings[k].missing \cap CheckedFields(entry.postings[k]) # {}

\* validateMissingEliminated: one error per Transaction that still has a
\* MISSING element.
RECURSIVE validateMissingEliminated(_, _)
validateMissingEliminated(es, i) ==
    IF i > Len(es)
    THEN <<>>
    ELSE (IF es[i].type = "Transaction" /\ HasMissing(es[i])
          THEN <<BookingError("Transaction has incomplete elements", i)>>
          ELSE <<>>)
         \o validateMissingEliminated(es, i + 1)

\* booking_full.book: the directives are class instances without a `type`
\* property, so each is pushed as-is and no error is produced.
bookFull(incompleteEntries) == <<incompleteEntries, <<>>>>

\* book(incompleteEntries, optionsMap): the pair [entries, errors].
book(incompleteEntries) ==
    LET booked == bookFull(incompleteEntries)
    IN  <<booked[1], booked[2] \o validateMissingEliminated(booked[1], 1)>>

----------------------------------------------------------------------------
(* loader.js *)

MainFile == "/ledger/main.ledger"

IncFile == "/ledger/inc.ledger"

GoneFile == "/ledger/gone.ledger"

\* path.resolve(path.dirname(source), includeFilename) for the files of /ledger.
Resolve(includeFilename) ==
    CASE includeFilename \in {"inc.ledger", "./inc.ledger", IncFile} -> IncFile
      [] includeFilename \in {"main.ledger", "./main.ledger", MainFile} -> MainFile
      [] OTHER -> GoneFile

LoadError(message, filename) == ValidationError("LoadError", message, 0, filename)

\* An error the parser returns for a file.
ParserError(filename) == ValidationError("ParserError", "syntax error", 0, filename)

Source(source, isFile) == [source |-> source, isFile |-> isFile]

\* What parseFile returns for a file: entries, errors and the include option.
ParsedFile(sourceEntries, sourceErrors, include) ==
    [entries |-> sourceEntries, errors |-> sourceErrors, include |-> include]

\* entries.sort((a, b) => a.date - b.date): a stable sort on the date alone.
InsertByDate(sorted, entry) ==
    LET n == Cardinality({k \in 1 .. Len(sorted) : sorted[k].date <= entry.date})
    IN  SubSeq(sorted, 1, n) \o <<entry>> \o SubSeq(sorted, n + 1, Len(sorted))

RECURSIVE SortByDate(_)
SortByDate(es) ==
    IF es = <<>>
    THEN <<>>
    ELSE InsertByDate(SortByDate(SubSeq(es, 1, Len(es) - 1)), es[Len(es)])

LoadParseIdle == UNCHANGED <<fs, invVars, valVars, opVars, bookErrors, validated>>

\* filenamesSeen.has(filename), never true.
AlreadySeen_never(filename, seen) == FALSE

\* filenamesSeen.has(filename)
AlreadySeen(filename, seen) == filename \in seen

\* The absolute filenames of the model in the order Array.prototype.sort
\* puts them.
FileOrder == <<GoneFile, IncFile, MainFile>>

\* Array.from(filenamesSeen).sort()
SortedFilenames(seen) == SelectSeq(FileOrder, LAMBDA f : f \in seen)

\* _parseRecursive, one iteration: the file was parsed already.
LoadDuplicate ==
    /\ lpc = "parse"
    /\ sourceStack # <<>>
    /\ Head(sourceStack).isFile
    /\ LET filename == Resolve(Head(sourceStack).source)
       IN  /\ AlreadySeen(filename, filenamesSeen)
           /\ lerrors' = Append(lerrors, LoadError("Duplicate filename parsed", filename))
    /\ sourceStack' = Tail(sourceStack)
    /\ UNCHANGED <<lpc, filenamesSeen, optionsNull, lentries, parsed, includeList>>
    /\ LoadParseIdle

\* _parseRecursive, one iteration: the file does not exist.
LoadMissing ==
    /\ lpc = "parse"
    /\ sourceStack # <<>>
    /\ Head(sourceStack).isFile
    /\ LET filename == Resolve(Head(sourceStack).source)
       IN  /\ ~AlreadySeen(filename, filenamesSeen)
           /\ filename \notin DOMAIN fs
           /\ lerrors' = Append(lerrors, LoadError("File does not exist", filename))
    /\ sourceStack' = Tail(sourceStack)
    /\ UNCHANGED <<lpc, filenamesSeen, optionsNull, lentries, parsed, includeList>>
    /\ LoadParseIdle

\* _parseRecursive, one iteration: the file is parsed, its entries and errors
\* are appended and its includes are pushed on the work-list.
LoadParseFile ==
    /\ lpc = "parse"
    /\ sourceStack # <<>>
    /\ Head(sourceStack).isFile
    /\ LET filename == Resolve(Head(sourceStack).source)
       IN  /\ ~AlreadySeen(filename, filenamesSeen)
           /\ filename \in DOMAIN fs
           /\ filenamesSeen' = filenamesSeen \cup {filename}
           /\ parsed' = Append(parsed, filename)
           /\ lentries' = lentries \o fs[filename].entries
           /\ lerrors' = lerrors \o fs[filename].errors
           /\ sourceStack' = Tail(sourceStack) \o
                 [k \in 1 .. Len(fs[filename].include) |->
                     Source(Resolve(fs[filename].include[k]), TRUE)]
    /\ optionsNull' = FALSE
    /\ UNCHANGED <<lpc, includeList>>
    /\ LoadParseIdle

\* _parseRecursive, one iteration on a string source: `parse` is not defined
\* in the module, the call throws a ReferenceError.
LoadParseString ==
    /\ lpc = "parse"
    /\ sourceStack # <<>>
    /\ ~Head(sourceStack).isFile
    /\ lpc' = "threw"
    /\ UNCHANGED <<sourceStack, filenamesSeen, optionsNull, lentries, lerrors, parsed, includeList>>
    /\ LoadParseIdle

\* _parseRecursive after the loop: with optionsMap still null the spread of
\* the undefined `defaultOptions` throws a ReferenceError.
LoadParsed ==
    /\ lpc = "parse"
    /\ sourceStack = <<>>
    /\ lpc' = IF optionsNull THEN "threw" ELSE "sort"
    /\ includeList' = IF optionsNull THEN includeList ELSE SortedFilenames(filenamesSeen)
    /\ UNCHANGED <<sourceStack, filenamesSeen, optionsNull, lentries, lerrors, parsed>>
    /\ LoadParseIdle

\* _load: entries.sort by date.
LoadSort ==
    /\ lpc = "sort"
    /\ lentries' = SortByDate(lentries)
    /\ lpc' = "book"
    /\ UNCHANGED <<sourceStack, filenamesSeen, optionsNull, lerrors, parsed, includeList>>
    /\ LoadParseIdle

\* _load: entries = book(entries, optionsMap). The pair book returns is
\* kept whole in `entries`: lentries is its first element, bookErrors its
\* second.
LoadBook ==
    /\ lpc = "book"
    /\ lentries' = book(lentries)[1]
    /\ bookErrors' = book(lentries)[2]
    /\ lpc' = "validate"
    /\ UNCHANGED <<fs, sourceStack, filenamesSeen, optionsNull, lerrors, validated, parsed, includeList>>
    /\ UNCHANGED <<invVars, valVars, opVars>>

\* _load: validate(entries, optionsMap) on the pair, a list of two Arrays,
\* then errors.push(...validationErrors) and the return.
LoadValidate ==
    /\ lpc = "validate"
    /\ LET pair == <<ArrayValue(Len(lentries)), ArrayValue(Len(bookErrors))>>
           r == validate(pair)
       IN  /\ validated' = pair
           /\ IF r.threw
              THEN lpc' = "threw" /\ lerrors' = lerrors
              ELSE lpc' = "done" /\ lerrors' = lerrors \o r.errors
    /\ UNCHANGED <<fs, sourceStack, filenamesSeen, optionsNull, lentries, bookErrors, parsed, includeList>>
    /\ UNCHANGED <<invVars, valVars, opVars>>

LoadNext ==
    \/ LoadDuplicate
    \/ LoadMissing
    \/ LoadParseFile
    \/ LoadParseString
    \/ LoadParsed
    \/ LoadSort
    \/ LoadBook
    \/ LoadValidate

\* The directives of the main file.
LedgerDirectives ==
    {Open(1, Bank), Open(1, Opening), Pad(1, Bank, Opening), Close(1, Bank),
     Balance(2, Bank, MkAmount(500, "USD")),
     Transaction(1, "*", <<MissingPosting(Bank, "USD"), SimplePosting(Opening, -1, "USD")>>)}

Ledgers == {Numbered(l) : l \in ListsUpTo(LedgerDirectives, MaxLedger)}

MainIncludes == {<<>>, <<"inc.ledger">>, <<"inc.ledger", "./inc.ledger">>, <<"gone.ledger">>}

IncIncludes == {<<>>, <<"main.ledger">>}

\* The files on disk: the main file and the file it may include.
FileSystems ==
    {[f \in {MainFile, IncFile} |->
         IF f = MainFile
         THEN ParsedFile(l, <<>>, mi)
         ELSE ParsedFile(Numbered(<<Note(2, Opening)>>), <<ParserError(IncFile)>>, ii)]
     : l \in Ledgers, mi \in MainIncludes, ii \in IncIncludes}

\* loadFile(filename) of the main file or of a file that does not exist, or
\* loadString(string).
LoadInit ==
    /\ InvIdle
    /\ ValIdle
    /\ OpIdle
    /\ fs \in FileSystems
    /\ lpc = "parse"
    /\ sourceStack \in {<<Source(MainFile, TRUE)>>, <<Source(GoneFile, TRUE)>>,
                        <<Source("2023-01-01 open Assets:Bank", FALSE)>>}
    /\ filenamesSeen = {}
    /\ optionsNull = TRUE
    /\ lentries = <<>>
    /\ bookErrors = <<>>
    /\ lerrors = <<>>
    /\ validated = <<>>
    /\ parsed = <<>>
    /\ includeList = <<>>

SpecLoad == LoadInit /\ [][LoadNext]_vars


----------------------------------------------------------------------------
(* Claims about the loader *)

\* _load has returned [entries, errors, optionsMap].
LoadReturned == lpc = "done"

C6_ErrorsSurface ==
    LoadReturned =>
        /\ \A f \in filenamesSeen : \A k \in 1 .. Len(fs[f].errors) :
              \E j \in 1 .. Len(lerrors) : lerrors[j] = fs[f].errors[k]
        /\ \A k \in 1 .. Len(bookErrors) :
              \E j \in 1 .. Len(lerrors) : lerrors[j] = bookErrors[k]
        /\ validated = lentries

\* The main file alone opens Bank and Opening, then pads Bank from Opening,
\* then asserts a balance of 500 USD on Bank, which nothing was posted to.
PadScenario ==
    /\ fs # <<>>
    /\ fs[MainFile].include = <<>>
    /\ fs[MainFile].entries =
          Numbered(<<Open(1, Bank), Open(1, Opening), Pad(1, Bank, Opening),
                     Balance(2, Bank, MkAmount(500, "USD"))>>)

\* The synthetic Transactions of the returned entries.
PadTransactions ==
    {i \in 1 .. Len(lentries) : lentries[i].type = "Transaction" /\ lentries[i].flag = "P"}

\* C7: the load of the pad scenario returns exactly one synthetic
\* Transaction, dated at the Pad and placed after it, and no error.
C7_PadScenarioLoad ==
    (LoadReturned /\ PadScenario /\ filenamesSeen = {MainFile}) =>
        /\ Cardinality(PadTransactions) = 1
        /\ \A i \in PadTransactions :
              \E p \in 1 .. (i - 1) :
                  lentries[p].type = "Pad" /\ lentries[p].date = lentries[i].date
        /\ lerrors = <<>>


----------------------------------------------------------------------------
(* Claims about validate() as a whole *)

\* C11: validate() never throws: whatever the entries, it does not end in
\* an exception of one of its validations.
C11_ValidateNeverThrows == vpc # "threw"


----------------------------------------------------------------------------
(* Claims about the include work-list *)

\* How many entries of the merged list are the entry e.
Occurrences(e) == Cardinality({i \in 1 .. Len(lentries) : lentries[i] = e})

WasParsed(f) == \E k \in 1 .. Len(parsed) : parsed[k] = f

\* The parse phase is over and _parseRecursive has returned.
ParseReturned == lpc \in {"sort", "book", "validate", "done"}

MissingFileErrors(f) ==
    {j \in 1 .. Len(lerrors) : lerrors[j] = LoadError("File does not exist", f)}

\* C13: a file that does not exist gets one LoadError and does not end the
\* load: the load does not throw after it, and it returns the entries of
\* every file that was read.
C13_MissingFileContinues ==
    /\ MissingFileErrors(GoneFile) # {} => lpc # "threw"
    /\ LoadReturned =>
          \A f \in DOMAIN fs : \A k \in 1 .. Len(fs[f].entries) :
              WasParsed(f) => Occurrences(fs[f].entries[k]) = 1


----------------------------------------------------------------------------
(* ops/pad.js and ops/balance.js *)

BankChecking == "Assets:Bank:Checking"

\* account.parentMatcher(accountName)(str) on the account names of the model:
\* str is the account or one of its sub-accounts.
parentMatcher(accountName, str) ==
    \/ str = accountName
    \/ accountName = Bank /\ str = BankChecking

RECURSIVE SumNumbers(_)
SumNumbers(numbers) ==
    IF numbers = <<>> THEN 0 ELSE Head(numbers) + SumNumbers(Tail(numbers))

\* What the postings of an entry add to the balance of the account's
\* subtree in the currency.
EntryUnits(entry, account, currency) ==
    SumNumbers([k \in 1 .. Len(entry.postings) |->
                   IF /\ parentMatcher(account, entry.postings[k].account)
                      /\ entry.postings[k].units.currency = currency
                   THEN entry.postings[k].units.number
                   ELSE 0])

\* realization.computeBalance(realAccount, false).getCurrencyUnits(currency)
\* when the loop of check() is at entry i: the postings of the Transactions
\* before i on the account and its sub-accounts.
computeBalance(es, i, account, currency) ==
    SumNumbers([j \in 1 .. (i - 1) |-> EntryUnits(es[j], account, currency)])

\* getBalanceTolerance: the tolerance of the directive when it has one; the
\* number is not a Decimal with an `exponent`, so the tolerance is ZERO
\* otherwise.
getBalanceTolerance(balanceEntry) ==
    IF balanceEntry.tolerance # NoTolerance THEN balanceEntry.tolerance ELSE ZERO

\* Math.abs(diffAmount.number) > tolerance
ExceedsTolerance(diff, tolerance) == Abs(diff) > tolerance

\* The Balance at i fails: check() pushes a BalanceError for it.
BalanceFails(es, i) ==
    /\ es[i].type = "Balance"
    /\ ExceedsTolerance(computeBalance(es, i, es[i].account, es[i].amount.currency)
                            - es[i].amount.number,
                        getBalanceTolerance(es[i]))

BalanceError(message, entry, account) ==
    ValidationError("BalanceError", message, entry, account)

\* getAccountOpenClose(entries)[account][0]: the Open of the account with
\* the earliest date, the first one of them; 0 when the account has none.
EarliestOpen(es, account) ==
    LET opens == {i \in 1 .. Len(es) : es[i].type = "Open" /\ es[i].account = account}
    IN  IF opens = {}
        THEN 0
        ELSE CHOOSE i \in opens :
                 \A j \in opens : es[i].date < es[j].date \/ (es[i].date = es[j].date /\ i <= j)

\* The errors check() pushes for the Balance at i before it compares the
\* amounts: the account has neither Open nor Close, or its Open does not
\* list the currency.
BalanceReferenceErrors(es, i) ==
    LET account == es[i].account
        o == EarliestOpen(es, account)
    IN  (IF ~\E j \in 1 .. Len(es) : es[j].type \in {"Open", "Close"} /\ es[j].account = account
         THEN <<BalanceError("Invalid reference to unknown account", i, account)>>
         ELSE <<>>)
        \o
        (IF o # 0 /\ es[o].hasCurrencies /\ es[i].amount.currency \notin es[o].currencies
         THEN <<BalanceError("Invalid currency for Balance directive", i, account)>>
         ELSE <<>>)

RECURSIVE CheckWalk(_, _, _)
CheckWalk(es, i, errs) ==
    IF i > Len(es)
    THEN [threw |-> FALSE, entries |-> es, errors |-> errs]
    ELSE IF es[i].type # "Balance"
    THEN CheckWalk(es, i + 1, errs)
    ELSE IF BalanceFails(es, i)
    THEN [threw |-> TRUE, entries |-> <<>>, errors |-> <<>>]
    ELSE CheckWalk(es, i + 1, errs \o BalanceReferenceErrors(es, i))

\* check(entries, optionsMap). At a failing Balance the BalanceError is
\* pushed and then `entry = {...entry, ...}` assigns to the const loop
\* variable: a TypeError leaves check() and the errors are lost.
check(es) == CheckWalk(es, 1, <<>>)

\* pad(entries, optionsMap). In the loop over the accounts that have a Pad,
\* `account` is the loop variable (a string), which hides the account
\* module: `account.parentMatcher(account)` is a call of undefined and throws
\* a TypeError in the first iteration. Without a Pad the loop body never
\* runs and the entries are copied to the output with no error.
pad(es) ==
    IF \E i \in 1 .. Len(es) : es[i].type = "Pad"
    THEN [threw |-> TRUE, entries |-> <<>>, errors |-> <<>>]
    ELSE [threw |-> FALSE, entries |-> es, errors |-> <<>>]

OpInit(lists) ==
    /\ InvIdle
    /\ ValIdle
    /\ LoadIdle
    /\ opEntries \in lists
    /\ opc = "call"
    /\ opOut = <<>>
    /\ opErrors = <<>>
    /\ pquery = <<>>
    /\ pquote = <<>>

\* The call of one of the two functions and its return or exception.
OpCall(r) ==
    /\ opc = "call"
    /\ opc' = IF r.threw THEN "threw" ELSE "done"
    /\ opOut' = r.entries
    /\ opErrors' = r.errors
    /\ UNCHANGED <<opEntries, pquery, pquote, invVars, valVars, loadVars>>

PadCall == OpCall(pad(opEntries))

CheckCall == OpCall(check(opEntries))

PadDirectives ==
    {Open(1, Bank), Open(1, Opening), Note(1, Bank), Pad(1, Bank, Opening),
     Transaction(1, "*", <<SimplePosting(Bank, 100, "USD"), SimplePosting(Opening, -100, "USD")>>),
     Balance(2, Bank, MkAmount(100, "USD")),
     Balance(2, Bank, MkAmount(500, "USD")),
     Balance(3, Bank, MkAmount(700, "USD"))}

PadLists == {l \in ListsUpTo(PadDirectives, MaxEntries) : IsDateSorted(l)}

SpecPad == OpInit(PadLists) /\ [][PadCall]_vars

CheckDirectives ==
    {Open(1, Bank), OpenWith(1, Bank, {"EUR"}), Close(3, Bank),
     Transaction(1, "*", <<SimplePosting(Bank, 100, "USD"), SimplePosting(Opening, -100, "USD")>>),
     Transaction(1, "*", <<SimplePosting(BankChecking, 2, "USD"), SimplePosting(Opening, -2, "USD")>>),
     Balance(2, Bank, MkAmount(100, "USD")),
     BalanceWithin(2, Bank, MkAmount(98, "USD"), 2),
     BalanceWithin(2, Bank, MkAmount(97, "USD"), 2),
     Balance(2, Opening, MkAmount(0, "USD"))}

CheckLists == {l \in ListsUpTo(CheckDirectives, MaxEntries) : IsDateSorted(l)}

SpecCheck == OpInit(CheckLists) /\ [][CheckCall]_vars


----------------------------------------------------------------------------
(* Claims about the pad processor and the balance check *)

\* pad() or check() is over, by a return or by an exception.
OpOver == opc \in {"done", "threw"}

OpIndices == 1 .. Len(opEntries)

IsSynthetic(entry) == entry.type = "Transaction" /\ entry.flag = "P"

\* The Balance at b is the first Balance on the Pad's account after the Pad
\* at p, no other Pad on the account lies before b, and its amount differs
\* from the running balance by more than the tolerance.
PadApplies(p, b) ==
    /\ opEntries[p].type = "Pad"
    /\ p < b
    /\ BalanceFails(opEntries, b)
    /\ opEntries[b].account = opEntries[p].account
    /\ \A j \in 1 .. (b - 1) :
          /\ j # p => ~(opEntries[j].type = "Pad" /\ opEntries[j].account = opEntries[p].account)
          /\ j > p => ~(opEntries[j].type = "Balance"
                          /\ opEntries[j].account = opEntries[p].account)

\* The Transaction the specification has the pad processor insert.
PaddingFor(p, b) ==
    LET C == opEntries[b].amount.currency
        diff == opEntries[b].amount.number
                   - computeBalance(opEntries, b, opEntries[p].account, C)
    IN  Transaction(opEntries[p].date, "P",
                    <<SimplePosting(opEntries[p].account, diff, C),
                      SimplePosting(opEntries[p].sourceAccount, 0 - diff, C)>>)

\* C14: when a Balance needs padding under an active Pad, the output holds,
\* immediately after the Pad, a Transaction dated at the Pad with one
\* posting on the padded account for (check amount - running balance) and
\* one on the source account for the negation.
C14_PaddingInserted ==
    OpOver =>
        \A p, b \in OpIndices :
            PadApplies(p, b) =>
                \E q \in 2 .. Len(opOut) :
                    /\ opOut[q - 1] = opEntries[p]
                    /\ IsSynthetic(opOut[q])
                    /\ opOut[q].date = opEntries[p].date
                    /\ opOut[q].postings = PaddingFor(p, b).postings
                    /\ SumNumbers([k \in 1 .. 2 |-> opOut[q].postings[k].units.number]) = 0

\* The synthetic Transactions of the output.
Insertions == {q \in 1 .. Len(opOut) : IsSynthetic(opOut[q])}

PadsOf(es) == {i \in 1 .. Len(es) : es[i].type = "Pad"}

\* C15: with one Pad in the input, the output holds one insertion when the
\* first Balance on the account after the Pad needs padding and none
\* otherwise, however many Balances follow.
C15_PadsOnce ==
    (OpOver /\ Cardinality(PadsOf(opEntries)) = 1) =>
        Cardinality(Insertions)
            = IF \E p, b \in OpIndices : PadApplies(p, b) THEN 1 ELSE 0

\* The output without the insertions.
Originals == SelectSeq(opOut, LAMBDA e : ~IsSynthetic(e))

\* C16: an 'Unused Pad' error is reported for a Pad exactly when the entry
\* that follows the Pad in the output is not an insertion; the output
\* without its insertions is the input.
C16_UnusedPad ==
    OpOver =>
        /\ Originals = opEntries
        /\ \A q \in PadsOf(opOut) :
              (\E k \in 1 .. Len(opErrors) :
                    /\ opErrors[k].message = "Unused Pad entry"
                    /\ opEntries[opErrors[k].entry] = opOut[q])
                 <=> ~(q < Len(opOut) /\ IsSynthetic(opOut[q + 1]))

\* C17: once check() is over, a 'Balance failed' error was returned for a
\* Balance exactly when the accumulated balance differs from the asserted
\* amount by strictly more than the tolerance.
C17_BalanceTolerance ==
    OpOver =>
        \A i \in OpIndices :
            opEntries[i].type = "Balance" =>
                ((\E k \in 1 .. Len(opErrors) :
                      /\ opErrors[k].validation = "BalanceError"
                      /\ opErrors[k].message = "Balance failed"
                      /\ opErrors[k].entry = i)
                 <=> Abs(computeBalance(opEntries, i, opEntries[i].account,
                                        opEntries[i].amount.currency)
                            - opEntries[i].amount.number)
                        > getBalanceTolerance(opEntries[i]))


----------------------------------------------------------------------------
(* core/prices.js *)

\* A Price directive: `currency` is priced at amount.number amount.currency.
Price(date, currency, amount) ==
    [MkEntry("Price", date, "") EXCEPT !.currency = currency, !.amount = amount]

\* A Decimal rate as a fraction <<numerator, denominator>> in lowest terms.
Decimal(n) == <<n, 1>>

ONE == Decimal(1)

\* ONE.div(rate), left as it is.
Reciprocal_same(rate) == rate

\* ONE.div(rate) of a non-zero rate.
Reciprocal(rate) == <<rate[2], rate[1]>>

\* rate.equals(ZERO)
IsZeroRate(rate) == rate[1] = ZERO

\* An element [date, rate] of a price list.
Sample(date, rate) == [date |-> date, rate |-> rate]

\* [null, null]
NullSample == [date |-> 0, rate |-> <<0, 0>>]

\* [null, ONE]
UnitSample == [date |-> 0, rate |-> ONE]

PriceCurrencies == {"USD", "EUR", "CAD"}

BaseQuotes == PriceCurrencies \X PriceCurrencies

\* The pair in the other direction.
Reverse(baseQuote) == <<baseQuote[2], baseQuote[1]>>

\* The list under the key of a pair after the first loop: the samples of the
\* Price directives of that pair, in the order of the entries.
RECURSIVE RawPrices(_, _)
RawPrices(es, baseQuote) ==
    IF es = <<>>
    THEN <<>>
    ELSE LET entry == Head(es)
         IN  (IF /\ entry.type = "Price"
                 /\ <<entry.currency, entry.amount.currency>> = baseQuote
              THEN <<Sample(entry.date, Decimal(entry.amount.number))>>
              ELSE <<>>)
             \o RawPrices(Tail(es), baseQuote)

\* The keys of priceMap after the first loop.
RawKeys(es) == {bq \in BaseQuotes : RawPrices(es, bq) # <<>>}

\* inversedUnits: the pairs whose other direction is a key as well.
inversedUnits(es) == {bq \in RawKeys(es) : Reverse(bq) \in RawKeys(es)}

\* The filter of sortedUnique: of the samples of one date the first is kept.
RECURSIVE UniqueDates(_)
UniqueDates(dateRates) ==
    IF dateRates = <<>>
    THEN <<>>
    ELSE LET front == UniqueDates(SubSeq(dateRates, 1, Len(dateRates) - 1))
             last == dateRates[Len(dateRates)]
         IN  IF \E k \in 1 .. Len(front) : front[k].date = last.date
             THEN front
             ELSE Append(front, last)

sortedUnique(dateRates) == UniqueDates(SortByDate(dateRates))

\* invertedList: the non-zero samples with their rate inverted.
RECURSIVE invertedList(_)
invertedList(priceList) ==
    IF priceList = <<>>
    THEN <<>>
    ELSE (IF IsZeroRate(Head(priceList).rate)
          THEN <<>>
          ELSE <<Sample(Head(priceList).date, Reciprocal(Head(priceList).rate))>>)
         \o invertedList(Tail(priceList))

NoPriceMap == [threw |-> TRUE, keys |-> {}, map |-> <<>>, forwardPairs |-> {}]

\* buildPriceMap(entries). When two directions of a pair are both keys,
\* inversedUnits holds both; the first iteration of the reconciliation
\* deletes one of the two keys and the second iteration reads `.length` of
\* the deleted list: a TypeError. A pair of a currency with itself is its own
\* inverse: its key is deleted and nothing is merged.
buildPriceMap(es) ==
    IF \E bq \in inversedUnits(es) : bq[1] # bq[2]
    THEN NoPriceMap
    ELSE LET forwardPairs == RawKeys(es) \ inversedUnits(es)
             keys == forwardPairs \cup {Reverse(bq) : bq \in forwardPairs}
         IN  [threw |-> FALSE,
              keys |-> keys,
              map |-> [bq \in keys |->
                          IF bq \in forwardPairs
                          THEN sortedUnique(RawPrices(es, bq))
                          ELSE invertedList(sortedUnique(RawPrices(es, Reverse(bq))))],
              forwardPairs |-> forwardPairs]

\* lookupPriceAndInverse: the list of the pair, else the list of the other
\* direction; found is FALSE where the code throws.
lookupPriceAndInverse(priceMap, baseQuote) ==
    IF baseQuote \in priceMap.keys
    THEN [found |-> TRUE, priceList |-> priceMap.map[baseQuote]]
    ELSE IF Reverse(baseQuote) \in priceMap.keys
    THEN [found |-> TRUE, priceList |-> priceMap.map[Reverse(baseQuote)]]
    ELSE [found |-> FALSE, priceList |-> <<>>]

getLatestPrice(priceMap, baseQuote) ==
    IF baseQuote[1] = baseQuote[2]
    THEN UnitSample
    ELSE LET r == lookupPriceAndInverse(priceMap, baseQuote)
         IN  IF r.found /\ r.priceList # <<>>
             THEN r.priceList[Len(r.priceList)]
             ELSE NullSample

\* priceList.findIndex(([priceDate]) => priceDate > date), counted from 1;
\* 0 when there is none (the code's -1).
findIndexAfter(priceList, date) ==
    LET later == {k \in 1 .. Len(priceList) : priceList[k].date > date}
    IN  IF later = {} THEN 0 ELSE CHOOSE k \in later : \A j \in later : k <= j

\* getPrice(priceMap, baseQuote, date); date 0 is null.
getPrice(priceMap, baseQuote, date) ==
    IF date = 0
    THEN getLatestPrice(priceMap, baseQuote)
    ELSE IF baseQuote[1] = baseQuote[2]
    THEN UnitSample
    ELSE LET r == lookupPriceAndInverse(priceMap, baseQuote)
             index == findIndexAfter(r.priceList, date)
         IN  IF r.found /\ index > 1 THEN r.priceList[index - 1] ELSE NullSample

\* buildPriceMap is called on the entries.
BuildPriceMapCall ==
    /\ opc = "call"
    /\ LET r == buildPriceMap(opEntries)
       IN  /\ opc' = IF r.threw THEN "threw" ELSE "done"
           /\ opOut' = r
    /\ UNCHANGED <<opEntries, opErrors, pquery, pquote, invVars, valVars, loadVars>>

MaxDate == 3

\* getPrice is called on the map that was built.
GetPriceCall ==
    /\ opc = "done"
    /\ \E baseQuote \in BaseQuotes, date \in 0 .. MaxDate :
          /\ pquery' = <<baseQuote, date>>
          /\ pquote' = getPrice(opOut, baseQuote, date)
    /\ UNCHANGED <<opEntries, opc, opOut, opErrors, invVars, valVars, loadVars>>

PriceNext ==
    \/ BuildPriceMapCall
    \/ GetPriceCall

PriceDirectives ==
    {Price(d, "USD", MkAmount(n, "EUR")) : d \in {1, 2}, n \in {0, 2}}
        \cup {Price(2, "USD", MkAmount(4, "EUR")), Price(3, "USD", MkAmount(4, "EUR")),
              Price(1, "EUR", MkAmount(2, "USD")), Price(2, "EUR", MkAmount(0, "USD"))}

PriceLists == ListsUpTo(PriceDirectives, MaxEntries)

SpecPrices == OpInit(PriceLists) /\ [][PriceNext]_vars


----------------------------------------------------------------------------
(* Claims about the price map *)

\* buildPriceMap has returned a map.
MapBuilt == opc = "done"

\* The pairs of two distinct currencies that are keys of the map.
KnownPairs == {bq \in opOut.keys : bq[1] # bq[2]}

\* The sample the specification has get_price return from a list: the last
\* one for a null date, else the one of the greatest date strictly less than
\* the date, (null, null) when there is none.
PriceBefore(priceList, date) ==
    IF priceList = <<>>
    THEN NullSample
    ELSE IF date = 0
    THEN priceList[Len(priceList)]
    ELSE LET earlier == {k \in 1 .. Len(priceList) : priceList[k].date < date}
         IN  IF earlier = {}
             THEN NullSample
             ELSE priceList[CHOOSE k \in earlier : \A j \in earlier : j <= k]

\* C18: a lookup of a known pair at date d returned the sample of the
\* greatest date strictly less than d, also for a d after the last sample,
\* (null, null) when no sample is earlier than d, and the last sample for a
\* null date; a lookup of an unknown pair returned (null, null).
C18_GetPrice ==
    (MapBuilt /\ pquery # <<>> /\ pquery[1][1] # pquery[1][2]) =>
        IF pquery[1] \in KnownPairs
        THEN pquote = PriceBefore(opOut.map[pquery[1]], pquery[2])
        ELSE pquote = NullSample

\* Two rates are inverse to each other.
AreReciprocal(r1, r2) == r1[1] * r2[1] = r1[2] * r2[2] /\ r1[1] # 0

\* Every non-zero sample of a pair has, at its date, a sample of the
\* inverse rate in the list of the other direction.
SamplesReciprocal ==
    \A bq \in KnownPairs : \A k \in 1 .. Len(opOut.map[bq]) :
        ~IsZeroRate(opOut.map[bq][k].rate) =>
            /\ Reverse(bq) \in KnownPairs
            /\ \E j \in 1 .. Len(opOut.map[Reverse(bq)]) :
                  /\ opOut.map[Reverse(bq)][j].date = opOut.map[bq][k].date
                  /\ AreReciprocal(opOut.map[bq][k].rate, opOut.map[Reverse(bq)][j].rate)

HasZeroSample(bq) ==
    \E k \in 1 .. Len(opOut.map[bq]) : IsZeroRate(opOut.map[bq][k].rate)

\* The lookups of the two directions of a pair at one date agree: both
\* return nothing, or they return inverse rates.
LookupsReciprocal(bq, date) ==
    LET forth == getPrice(opOut, bq, date)
        back == getPrice(opOut, Reverse(bq), date)
    IN  \/ forth = NullSample /\ back = NullSample
        \/ /\ forth # NullSample /\ back # NullSample
           /\ AreReciprocal(forth.rate, back.rate)

\* C19 as stated: the samples of the two directions are reciprocal, and the
\* lookups of the two directions at one date return reciprocal rates whenever
\* one of them returns a non-zero rate.
C19_Original ==
    MapBuilt =>
        /\ SamplesReciprocal
        /\ \A bq \in KnownPairs : \A date \in 0 .. MaxDate :
              LET forth == getPrice(opOut, bq, date)
                  back == getPrice(opOut, Reverse(bq), date)
              IN  (\/ forth # NullSample /\ ~IsZeroRate(forth.rate)
                   \/ back # NullSample /\ ~IsZeroRate(back.rate))
                      => LookupsReciprocal(bq, date)

\* C19 (amended): the samples of the two directions are reciprocal, and the
\* lookups of the two directions at one date return reciprocal rates when
\* the pair has no zero-rate sample.
C19_ReciprocalRates ==
    MapBuilt =>
        /\ SamplesReciprocal
        /\ \A bq \in KnownPairs : \A date \in 0 .. MaxDate :
              (~HasZeroSample(bq) /\ ~HasZeroSample(Reverse(bq)))
                  => LookupsReciprocal(bq, date)

\* A map with two non-zero samples of USD in EUR, and a lookup of EUR in USD
\* between them that returned the inverse of the first.
C19_Witness ==
    /\ MapBuilt
    /\ opOut.forwardPairs = {<<"USD", "EUR">>}
    /\ Len(opOut.map[<<"USD", "EUR">>]) = 2
    /\ ~HasZeroSample(<<"USD", "EUR">>)
    /\ pquery = <<<<"EUR", "USD">>, 2>>
    /\ pquote = Sample(1, <<1, 2>>)

\* The dates of the non-zero samples the entries give for a pair.
NonZeroDates(es, bq) ==
    {RawPrices(es, bq)[k].date :
        k \in {j \in 1 .. Len(RawPrices(es, bq)) : ~IsZeroRate(RawPrices(es, bq)[j].rate)}}

\* C20: when the entries price a pair in both directions, buildPriceMap
\* returns; exactly one of the two directions is a forward pair, the one
\* with more samples when they differ in number, and its list has a sample
\* at the date of every non-zero sample of either direction.
C20_BothDirectionsMerged ==
    (opc \in {"done", "threw"} /\ inversedUnits(opEntries) # {}) =>
        /\ MapBuilt
        /\ \A bq \in inversedUnits(opEntries) :
              /\ (bq \in opOut.forwardPairs) # (Reverse(bq) \in opOut.forwardPairs)
              /\ Len(RawPrices(opEntries, bq)) < Len(RawPrices(opEntries, Reverse(bq)))
                    => Reverse(bq) \in opOut.forwardPairs
              /\ bq \in opOut.forwardPairs =>
                    \A d \in NonZeroDates(opEntries, bq) \cup NonZeroDates(opEntries, Reverse(bq)) :
                        \E k \in 1 .. Len(opOut.map[bq]) : opOut.map[bq][k].date = d


----------------------------------------------------------------------------
(* core/account.js: account names, and the copy of the module that follows
   the inventory.  A string is the sequence of its characters. *)

\* Component separator for account names
sep == ":"

\* The characters of the names: an upper-case letter, a lower-case letter, a
\* digit, the dash and the separator.
AccountChars == {"A", "b", "1", "-", sep}

MaxName == 5

\* null, which no string equals
NullName == <<"<null>">>

\* One component of a name: [A-Z0-9][a-zA-Z0-9\-]*, the first component [A-Z]...
IsComponent(c, first) ==
    /\ c # <<>>
    /\ c[1] \in first
    /\ \A k \in 1 .. Len(c) : c[k] \in {"A", "b", "1", "-"}

\* String.prototype.split(by)
RECURSIVE splitBy(_, _)
splitBy(str, by) ==
    LET seps == {k \in 1 .. Len(str) : str[k] = by}
    IN  IF seps = {}
        THEN <<str>>
        ELSE LET k == CHOOSE j \in seps : \A i \in seps : j <= i
             IN  <<SubSeq(str, 1, k - 1)>> \o splitBy(SubSeq(str, k + 1, Len(str)), by)

split(accountName) == splitBy(accountName, sep)

\* Array.prototype.join(with)
RECURSIVE joinWith(_, _)
joinWith(components, with) ==
    IF components = <<>>
    THEN <<>>
    ELSE IF Len(components) = 1
    THEN components[1]
    ELSE components[1] \o with \o joinWith(Tail(components), with)

join(components) == joinWith(components, <<sep>>)

\* ACCOUNT_RE of core/account.js, anchored at both ends
isValid(str) ==
    LET components == split(str)
    IN  /\ Len(components) >= 2
        /\ IsComponent(components[1], {"A"})
        /\ \A k \in 2 .. Len(components) : IsComponent(components[k], {"A", "1"})

\* a value that a condition takes as true
Truthy(str) == str # <<>> /\ str # NullName

\* components.pop()
Pop(components) == SubSeq(components, 1, Len(components) - 1)

\* parent of core/account.js: null for a root
parent(accountName) ==
    IF ~Truthy(accountName)
    THEN NullName
    ELSE LET joined == join(Pop(split(accountName)))
         IN  IF Truthy(joined) THEN joined ELSE NullName

\* parent of the second module: the empty string for a root
parentSecond(accountName) ==
    IF accountName = NullName
    THEN NullName
    ELSE join(Pop(split(accountName)))

AccountModules == {"account", "second"}

\* parent() of the module the generator belongs to
ParentIn(module, accountName) ==
    IF module = "account" THEN parent(accountName) ELSE parentSecond(accountName)

\* accountName = parent(accountName) || "", and accountName = parent(accountName)
NextAccount(module, accountName) ==
    IF module = "account"
    THEN IF Truthy(parent(accountName)) THEN parent(accountName) ELSE <<>>
    ELSE parentSecond(accountName)

AccountNames == {a \in ListsUpTo(AccountChars, MaxName) : isValid(a)}

\* A caller holds a name and one of the two modules.
AccountInit ==
    /\ InvIdle
    /\ ValIdle
    /\ LoadIdle
    /\ opEntries \in AccountNames
    /\ opc = "call"
    /\ opOut = <<>>
    /\ opErrors = <<>>
    /\ pquery = <<>>
    /\ pquote \in AccountModules

\* parents(accountName): the generator is created, nothing has run
ParentsCall ==
    /\ opc = "call"
    /\ opc' = "running"
    /\ pquery' = opEntries
    /\ UNCHANGED <<opEntries, opOut, opErrors, pquote, invVars, valVars, loadVars>>

\* while (accountName) { yield accountName; accountName = parent(accountName) }
ParentsYield ==
    /\ opc = "running"
    /\ Truthy(pquery)
    /\ opOut' = Append(opOut, pquery)
    /\ pquery' = NextAccount(pquote, pquery)
    /\ UNCHANGED <<opEntries, opc, opErrors, pquote, invVars, valVars, loadVars>>

\* the loop condition fails: the generator is done
ParentsReturn ==
    /\ opc = "running"
    /\ ~Truthy(pquery)
    /\ opc' = "done"
    /\ UNCHANGED <<opEntries, opOut, opErrors, pquery, pquote, invVars, valVars, loadVars>>

\* The caller keeps the sequence it got and calls parents() again.
ParentsRestart ==
    /\ opc = "done"
    /\ opErrors = <<>>
    /\ opErrors' = opOut
    /\ opOut' = <<>>
    /\ pquery' = opEntries
    /\ opc' = "running"
    /\ UNCHANGED <<opEntries, pquote, invVars, valVars, loadVars>>

ParentsNext ==
    \/ ParentsCall
    \/ ParentsYield
    \/ ParentsReturn
    \/ ParentsRestart

SpecParents == AccountInit /\ [][ParentsNext]_vars

\* C21: parents(a) ends; its sequence starts with a, each further element is
\* parent() of the one before, the last is the root component, whose parent
\* is null, the sequence has as many elements as a has components, and a
\* restarted generator yields the same sequence again.
C21_Parents ==
    opc = "done" =>
        /\ opOut # <<>>
        /\ opOut[1] = opEntries
        /\ \A k \in 2 .. Len(opOut) : opOut[k] = ParentIn(pquote, opOut[k - 1])
        /\ opOut[Len(opOut)] = split(opEntries)[1]
        /\ ParentIn(pquote, opOut[Len(opOut)]) = NullName
        /\ Len(opOut) = Len(split(opEntries))
        /\ opErrors # <<>> => opErrors = opOut


----------------------------------------------------------------------------
(* AccountTransformer of the two modules *)

\* The replacement separators: none, a character of names, a character
\* that a regular expression reads as "any character", and a plain one.
Rseps == {NullLabel, "-", ".", "_"}

\* new RegExp(source, "g") on one character: "." matches every character
RegExpMatches(source, char) == source = "." \/ source = char

\* String.prototype.replace(new RegExp(source, "g"), with)
replace(str, source, with) ==
    [k \in 1 .. Len(str) |-> IF RegExpMatches(source, str[k]) THEN with ELSE str[k]]

\* AccountTransformer.render
render(module, rsep, accountName) ==
    IF rsep = NullLabel
    THEN accountName
    ELSE IF module = "account"
    THEN replace(accountName, sep, rsep)
    ELSE joinWith(splitBy(accountName, sep), <<rsep>>)

\* AccountTransformer.parse
parse(module, rsep, transformedName) ==
    IF rsep = NullLabel
    THEN transformedName
    ELSE IF module = "account"
    THEN replace(transformedName, rsep, sep)
    ELSE joinWith(splitBy(transformedName, rsep), <<sep>>)

\* new AccountTransformer(rsep), of one of the two modules
TransformerInit ==
    /\ InvIdle
    /\ ValIdle
    /\ LoadIdle
    /\ opEntries \in AccountNames
    /\ opc = "call"
    /\ opOut = <<>>
    /\ opErrors = <<>>
    /\ pquery \in {<<rsep>> : rsep \in Rseps}
    /\ pquote \in AccountModules

RenderCall ==
    /\ opc = "call"
    /\ opOut' = render(pquote, pquery[1], opEntries)
    /\ opc' = "rendered"
    /\ UNCHANGED <<opEntries, opErrors, pquery, pquote, invVars, valVars, loadVars>>

ParseCall ==
    /\ opc = "rendered"
    /\ opErrors' = parse(pquote, pquery[1], opOut)
    /\ opc' = "done"
    /\ UNCHANGED <<opEntries, opOut, pquery, pquote, invVars, valVars, loadVars>>

TransformerNext ==
    \/ RenderCall
    \/ ParseCall

SpecTransformer == TransformerInit /\ [][TransformerNext]_vars

\* C22: for every replacement separator, parse(render(a)) is a, and render
\* gives no other valid name the string it gives a.
C22_TransformerBijective ==
    /\ opc = "done" => opErrors = opEntries
    /\ opc = "rendered" =>
          \A other \in AccountNames :
              other # opEntries => render(pquote, pquery[1], other) # opOut


----------------------------------------------------------------------------
(* parser/booking.js and parser/booking_full.js: book() on directive lists *)

\* _book never enters its Transaction branch, so the balances it returns are
\* the ones it was given.
bookBalances(initialBalances) == initialBalances

\* book(incompleteEntries, optionsMap) is called and returns.
BookCall ==
    /\ opc = "call"
    /\ opOut' = book(opEntries)[1]
    /\ opErrors' = book(opEntries)[2]
    /\ pquote' = bookBalances(pquery)
    /\ opc' = "done"
    /\ UNCHANGED <<opEntries, pquery, invVars, valVars, loadVars>>

\* A cost of 200 USD, which no lot of the model has.
LotC == MkCost(200, "USD", 1, NullLabel)

\* A posting at cost.
CostPosting(account, number, cost) == Posting(account, MkAmount(number, "HOOL"), cost, NoPrice)

BookDirectives ==
    {Open(1, Bank),
     Transaction(1, "*", <<SimplePosting(Bank, 1, "USD"), SimplePosting(Opening, -1, "USD")>>),
     Transaction(1, "*", <<MissingPosting(Bank, "USD"), MissingPosting(Opening, "USD")>>),
     Transaction(1, "*", <<SimplePosting(Bank, 1, "USD"), MissingPosting(Opening, "USD")>>),
     Transaction(1, "*",
         <<WithMissing(Posting(Bank, MkAmount(1, "HOOL"), NullCost, MkPrice(0, "USD")),
                       {"price.number"}),
           SimplePosting(Opening, -1, "USD")>>),
     Transaction(1, "*",
         <<WithMissing(CostPosting(Bank, 1, MkCost(0, "USD", 1, NullLabel)), {"cost.number"}),
           SimplePosting(Opening, -1, "USD")>>),
     Transaction(1, "*", <<CostPosting(Bank, 2, LotA), SimplePosting(Opening, -200, "USD")>>),
     Transaction(2, "*", <<CostPosting(Bank, -1, LotC), SimplePosting(Opening, 200, "USD")>>),
     Transaction(2, "*", <<CostPosting(Bank, 2, LotA), CostPosting(Bank, -3, LotA)>>)}

BookLists == ListsUpTo(BookDirectives, MaxEntries)

SpecBook == OpInit(BookLists) /\ [][BookCall]_vars

----------------------------------------------------------------------------
(* Claims about booking *)

\* getBucketCurrency: the currency of the group a posting belongs to
getBucketCurrency(posting) ==
    IF ~posting.cost.isNull
    THEN posting.cost.currency
    ELSE IF ~posting.price.isNull
    THEN posting.price.currency
    ELSE posting.units.currency

\* The numbers of a posting that are MISSING: its units, its cost, its price.
MissingNumbers(posting) ==
    (IF posting.numberMissing THEN {"units.number"} ELSE {})
        \cup (posting.missing \cap {"cost.number", "price.number"})

\* The number of missing numbers in the group of a currency.
MissingInGroup(entry, currency) ==
    SumNumbers([k \in 1 .. Len(entry.postings) |->
                   IF getBucketCurrency(entry.postings[k]) = currency
                   THEN Cardinality(MissingNumbers(entry.postings[k]))
                   ELSE 0])

\* The errors of a class that book() returned for the entry at i.
BookErrorsOf(class, i) ==
    {k \in 1 .. Len(opErrors) : opErrors[k].validation = class /\ opErrors[k].entry = i}

BookTransactions == {i \in 1 .. Len(opEntries) : opEntries[i].type = "Transaction"}

\* C23: for a Transaction with a currency group of more than one missing
\* number book() returns exactly one InterpolationError; for a Transaction
\* without a missing number it returns no error and the same postings.
C23_Interpolation ==
    opc = "done" =>
        \A i \in BookTransactions :
            /\ (\E c \in Currencies : MissingInGroup(opEntries[i], c) > 1)
                   => Cardinality(BookErrorsOf("InterpolationError", i)) = 1
            /\ (\A c \in Currencies : MissingInGroup(opEntries[i], c) = 0)
                   => /\ \A k \in 1 .. Len(opErrors) : opErrors[k].entry # i
                      /\ opOut[i] = opEntries[i]

\* The postings at cost that come before posting k of entry i on the
\* account, as pairs of entry and posting.
EarlierCostPostings(es, i, k, account) ==
    {jk \in (1 .. i) \X (1 .. 2) :
        /\ jk[1] < i \/ jk[2] < k
        /\ es[jk[1]].type = "Transaction"
        /\ jk[2] <= Len(es[jk[1]].postings)
        /\ es[jk[1]].postings[jk[2]].account = account
        /\ ~es[jk[1]].postings[jk[2]].cost.isNull}

RECURSIVE SumUnits(_, _)
SumUnits(es, pairs) ==
    IF pairs = {}
    THEN 0
    ELSE LET jk == CHOOSE x \in pairs : TRUE
         IN  es[jk[1]].postings[jk[2]].units.number + SumUnits(es, pairs \ {jk})

\* Posting k of entry i reduces the units that the account holds at cost,
\* and the lots of its cost hold less than it takes.
UnmatchedReduction(es, i, k) ==
    LET posting == es[i].postings[k]
        earlier == EarlierCostPostings(es, i, k, posting.account)
        sameLot == {jk \in earlier : es[jk[1]].postings[jk[2]].cost = posting.cost}
    IN  /\ ~posting.cost.isNull
        /\ posting.missing = {}
        /\ posting.units.number < 0
        /\ SumUnits(es, earlier) > 0
        /\ SumUnits(es, sameLot) < -posting.units.number

\* C24: for a reducing posting at cost that no lot matches, or that takes
\* more than the lots hold, book() returns a ReductionError, and the
\* balances are the ones that were passed in.
C24_ReductionError ==
    opc = "done" =>
        \A i \in BookTransactions : \A k \in 1 .. Len(opEntries[i].postings) :
            UnmatchedReduction(opEntries, i, k) =>
                /\ BookErrorsOf("ReductionError", i) # {}
                /\ pquote = pquery

\* A posting holds MISSING somewhere: in its units, its cost or its price.
ContainsMissing(posting) == posting.numberMissing \/ posting.missing # {}

\* C26: book() returns exactly one 'Transaction has incomplete elements'
\* error for every Transaction of which a posting still contains MISSING,
\* and none for any other directive.
C26_MissingEliminated ==
    opc = "done" =>
        \A i \in 1 .. Len(opOut) :
            LET incomplete == {k \in BookErrorsOf("BookingError", i) :
                                  opErrors[k].message = "Transaction has incomplete elements"}
            IN  Cardinality(incomplete) =
                    IF /\ opOut[i].type = "Transaction"
                       /\ \E k \in 1 .. Len(opOut[i].postings) : ContainsMissing(opOut[i].postings[k])
                    THEN 1
                    ELSE 0


----------------------------------------------------------------------------
(* parser/booking_method.js: BookingMethod.  opOut is this.inventory,
   opEntries the amounts of the transactions applied so far, opErrors the
   list the last call returned, pquote this.method. *)

MaxAmount == 2

MaxCalls == 3

\* An element of this.inventory or of a returned list; lot is the number of
\* the transaction it was copied from.
Lot(lot, amount) == [lot |-> lot, amount |-> amount]

\* The while loop of applyFIFO with the lot at `at` as the one to take from
\* (the first for applyFIFO, the last for applyLIFO), and the push of what
\* remains after it.
RECURSIVE applyLoop(_, _, _, _, _)
applyLoop(inventory, remaining, booked, fromFirst, transaction) ==
    IF remaining > 0 /\ Len(inventory) > 0
    THEN LET at == IF fromFirst THEN 1 ELSE Len(inventory)
             taken == inventory[at]
         IN  IF taken.amount >= remaining
             THEN applyLoop([inventory EXCEPT ![at].amount = @ - remaining], 0,
                            Append(booked, Lot(taken.lot, remaining)),
                            fromFirst, transaction)
             ELSE applyLoop(IF fromFirst
                            THEN Tail(inventory)
                            ELSE SubSeq(inventory, 1, Len(inventory) - 1),
                            remaining - taken.amount, Append(booked, taken),
                            fromFirst, transaction)
    ELSE [inventory |-> IF remaining > 0
                        THEN Append(inventory, Lot(transaction, remaining))
                        ELSE inventory,
          booked |-> booked]

applyFIFO(inventory, transaction, amount) ==
    applyLoop(inventory, amount, <<>>, TRUE, transaction)

applyLIFO(inventory, transaction, amount) ==
    applyLoop(inventory, amount, <<>>, FALSE, transaction)

\* new BookingMethod(method)
MethodInit ==
    /\ InvIdle
    /\ ValIdle
    /\ LoadIdle
    /\ opEntries = <<>>
    /\ opc = "call"
    /\ opOut = <<>>
    /\ opErrors = <<>>
    /\ pquery = <<>>
    /\ pquote \in {"FIFO", "LIFO"}

TransactionAmounts == (-MaxAmount .. MaxAmount) \ {0}

\* applyMethod(transaction) with the result r of the method's function
ApplyMethod(amount, r) ==
    /\ Len(opEntries) < MaxCalls
    /\ opEntries' = Append(opEntries, amount)
    /\ opOut' = r.inventory
    /\ opErrors' = r.booked
    /\ UNCHANGED <<opc, pquery, pquote, invVars, valVars, loadVars>>

ApplyFIFO ==
    /\ pquote = "FIFO"
    /\ \E amount \in TransactionAmounts :
          ApplyMethod(amount, applyFIFO(opOut, Len(opEntries) + 1, amount))

ApplyLIFO ==
    /\ pquote = "LIFO"
    /\ \E amount \in TransactionAmounts :
          ApplyMethod(amount, applyLIFO(opOut, Len(opEntries) + 1, amount))

MethodNext ==
    \/ ApplyFIFO
    \/ ApplyLIFO

SpecMethod == MethodInit /\ [][MethodNext]_vars

----------------------------------------------------------------------------
(* Claims about the booking methods *)

RECURSIVE TotalAmount(_)
TotalAmount(lots) ==
    IF lots = <<>> THEN 0 ELSE Head(lots).amount + TotalAmount(Tail(lots))

\* A reduction of a quantity as the specification has it: the lots are
\* taken in order, the oldest first or the newest first, each one wholly
\* before the next is touched, and the last one touched is split.
RECURSIVE Consume(_, _, _, _)
Consume(lots, quantity, booked, oldestFirst) ==
    IF quantity = 0 \/ lots = <<>>
    THEN [lots |-> lots, booked |-> booked]
    ELSE LET at == IF oldestFirst THEN 1 ELSE Len(lots)
             rest == IF oldestFirst THEN Tail(lots) ELSE SubSeq(lots, 1, Len(lots) - 1)
         IN  IF lots[at].amount > quantity
             THEN [lots |-> [lots EXCEPT ![at].amount = @ - quantity],
                   booked |-> Append(booked, Lot(lots[at].lot, quantity))]
             ELSE Consume(rest, quantity - lots[at].amount, Append(booked, lots[at]), oldestFirst)

\* The lots and the last attribution after the transactions of a history:
\* a positive amount acquires a lot, a negative one is a reduction, which
\* changes nothing when it exceeds what the lots hold.
RECURSIVE Expected(_, _, _)
Expected(history, n, oldestFirst) ==
    IF n = 0
    THEN [lots |-> <<>>, booked |-> <<>>]
    ELSE LET held == Expected(history, n - 1, oldestFirst).lots
         IN  IF history[n] > 0
             THEN [lots |-> Append(held, Lot(n, history[n])), booked |-> <<>>]
             ELSE IF TotalAmount(held) < -history[n]
             THEN [lots |-> held, booked |-> <<>>]
             ELSE Consume(held, -history[n], <<>>, oldestFirst)

\* C25: the inventory holds the lots that the acquisitions and reductions
\* applied so far leave when every reduction takes the lots in order of
\* acquisition, oldest first under FIFO and newest first under LIFO, and
\* the last call returned the attribution of its reduction.
C25_LotOrder ==
    LET expected == Expected(opEntries, Len(opEntries), pquote = "FIFO")
    IN  /\ SelectSeq(opOut, LAMBDA l : l.amount # 0) = expected.lots
        /\ (opEntries # <<>> /\ opEntries[Len(opEntries)] < 0) => opErrors = expected.booked


----------------------------------------------------------------------------
(* Claims about the samples of the price map *)

\* The Price directives of the entries for a pair at a date, by position.
PricesAt(es, bq, date) ==
    {i \in 1 .. Len(es) :
        /\ es[i].type = "Price"
        /\ es[i].currency = bq[1]
        /\ es[i].amount.currency = bq[2]
        /\ es[i].date = date}

\* The rate of the last of them in the input.
LastRate(es, bq, date) ==
    Decimal(es[CHOOSE i \in PricesAt(es, bq, date) :
                   \A j \in PricesAt(es, bq, date) : j <= i].amount.number)

\* C27: every list of the price map has strictly increasing dates, and the
\* rate a forward pair has at a date is the rate of the last Price directive
\* of the input for the pair and the date.
C27_LastWriteWins ==
    MapBuilt =>
        /\ \A bq \in opOut.keys : \A k \in 2 .. Len(opOut.map[bq]) :
              opOut.map[bq][k - 1].date < opOut.map[bq][k].date
        /\ \A bq \in opOut.forwardPairs : \A k \in 1 .. Len(opOut.map[bq]) :
              opOut.map[bq][k].rate = LastRate(opEntries, bq, opOut.map[bq][k].date)


----------------------------------------------------------------------------
(* CostSpec to Cost: convertSpecToCost of parser/booking.js, computeCostNumber
   and convertCostspecToCost of parser/booking_full.js.  opEntries is the
   input <<units.number, numberPer, numberTotal>>; opOut, opErrors and pquote
   are what the three functions returned. *)

MaxCost == 2

\* A field of a CostSpec: a number, null or MISSING.
Number(n) == [kind |-> "number", n |-> n]

Null == [kind |-> "null", n |-> 0]

MISSING == [kind |-> "MISSING", n |-> 0]

\* What a conversion returns: a per-unit cost as a fraction, null, or a
\* TypeError.
UnitCost(numerator, denominator) ==
    [kind |-> "number", rate |-> <<numerator, denominator>>]

NoUnitCost == [kind |-> "null", rate |-> <<0, 1>>]

ThrewTypeError == [kind |-> "threw", rate |-> <<0, 1>>]

\* numberPer * unitsNum, with null taken as 0
PerTimes(numberPer, unitsNum) == numberPer.n * unitsNum

\* convertSpecToCost(units, costSpec)
convertSpecToCost(unitsNum, numberPer, numberTotal) ==
    IF numberPer # MISSING \/ numberTotal # Null
    THEN IF numberTotal # Null
         THEN UnitCost(numberTotal.n
                           + (IF numberPer # MISSING
                              THEN PerTimes(numberPer, unitsNum)
                              ELSE 0),
                       Abs(unitsNum))
         ELSE IF numberPer = Null THEN NoUnitCost ELSE UnitCost(numberPer.n, 1)
    ELSE NoUnitCost

\* computeCostNumber(costspec, units)
computeCostNumber(unitsNum, numberPer, numberTotal) ==
    IF numberPer = MISSING \/ numberTotal = MISSING
    THEN NoUnitCost
    ELSE IF numberTotal # Null
    THEN IF numberPer # Null
         THEN UnitCost(numberTotal.n + numberPer.n * Abs(unitsNum), Abs(unitsNum))
         ELSE UnitCost(numberTotal.n, Abs(unitsNum))
    ELSE IF numberPer # Null THEN UnitCost(numberPer.n, 1) ELSE NoUnitCost

\* convertCostspecToCost(posting): the number of the new Cost
convertCostspecToCost(unitsNum, numberPer, numberTotal) ==
    IF numberTotal # Null
    THEN IF numberPer # MISSING
         THEN IF numberPer = Null
              THEN ThrewTypeError
              ELSE UnitCost(numberTotal.n + numberPer.n * Abs(unitsNum), Abs(unitsNum))
         ELSE UnitCost(numberTotal.n, Abs(unitsNum))
    ELSE IF numberPer.kind = "number" THEN UnitCost(numberPer.n, 1) ELSE NoUnitCost

\* units.number, numberPer and numberTotal of a posting with non-zero units
CostInputs ==
    ((-MaxUnits .. MaxUnits) \ {0})
        \X ({Null, MISSING} \cup {Number(n) : n \in 0 .. MaxCost})
        \X ({Null} \cup {Number(n) : n \in 0 .. MaxCost})

CostInit ==
    /\ InvIdle
    /\ ValIdle
    /\ LoadIdle
    /\ opEntries \in CostInputs
    /\ opc = "call"
    /\ opOut = <<>>
    /\ opErrors = <<>>
    /\ pquery = <<>>
    /\ pquote = <<>>

ConvertSpecToCostCall ==
    /\ opOut = <<>>
    /\ opOut' = convertSpecToCost(opEntries[1], opEntries[2], opEntries[3])
    /\ UNCHANGED <<opEntries, opc, opErrors, pquery, pquote, invVars, valVars, loadVars>>

ComputeCostNumberCall ==
    /\ opErrors = <<>>
    /\ opErrors' = computeCostNumber(opEntries[1], opEntries[2], opEntries[3])
    /\ UNCHANGED <<opEntries, opc, opOut, pquery, pquote, invVars, valVars, loadVars>>

ConvertCostspecToCostCall ==
    /\ pquote = <<>>
    /\ pquote' = convertCostspecToCost(opEntries[1], opEntries[2], opEntries[3])
    /\ UNCHANGED <<opEntries, opc, opOut, opErrors, pquery, invVars, valVars, loadVars>>

CostNext ==
    \/ ConvertSpecToCostCall
    \/ ComputeCostNumberCall
    \/ ConvertCostspecToCostCall

SpecCost == CostInit /\ [][CostNext]_vars

----------------------------------------------------------------------------
(* Claims about the conversion of a CostSpec *)

\* A field of the CostSpec is absent: null or MISSING.
Absent(field) == field.kind # "number"

\* (number_total + number_per x |units|) / |units|, a term being omitted
\* when its input is absent
SpecUnitCost(unitsNum, numberPer, numberTotal) ==
    IF Absent(numberPer) /\ Absent(numberTotal)
    THEN NoUnitCost
    ELSE UnitCost((IF Absent(numberTotal) THEN 0 ELSE numberTotal.n)
                      + (IF Absent(numberPer) THEN 0 ELSE numberPer.n * Abs(unitsNum)),
                  Abs(unitsNum))

\* Two results are the same cost.
SameCost(a, b) ==
    /\ a.kind = b.kind
    /\ a.rate[1] * b.rate[2] = b.rate[1] * a.rate[2]

\* C28: each of the conversions returns the per-unit cost
\* (number_total + number_per x |units|) / |units| without the absent terms,
\* which is the same for units u and -u, and the implementations agree.
C28_UnitCost ==
    LET expected == SpecUnitCost(opEntries[1], opEntries[2], opEntries[3])
    IN  /\ opOut # <<>> =>
              /\ SameCost(opOut, expected)
              /\ SameCost(opOut, convertSpecToCost(-opEntries[1], opEntries[2], opEntries[3]))
        /\ opErrors # <<>> => SameCost(opErrors, expected)
        /\ pquote # <<>> => SameCost(pquote, expected)
        /\ (opOut # <<>> /\ opErrors # <<>>) => SameCost(opOut, opErrors)
        /\ (opOut # <<>> /\ pquote # <<>>) => SameCost(opOut, pquote)


----------------------------------------------------------------------------
(* core/prices.js: project.  opOut is origPriceMap, opErrors the map that
   project returned, pquery the pair <<fromCurrency, toCurrency>>. *)

\* priceMap.get(key) || []
ListOf(priceMap, key) == IF key \in priceMap.keys THEN priceMap.map[key] ELSE <<>>

\* priceMap.set(key, list)
SetList(priceMap, key, list) ==
    [priceMap EXCEPT !.keys = @ \cup {key},
                     !.map = [k \in priceMap.keys \cup {key} |->
                                 IF k = key THEN list ELSE priceMap.map[k]]]

\* price.mul(rate)
Times(price, rate) == <<price[1] * rate[1], price[2] * rate[2]>>

\* newProjected: of the samples of (base, from), those for which
\* (from, to) has a rate whose date (base, to) does not have yet
RECURSIVE newProjected(_, _, _, _, _)
newProjected(priceMap, prices, fromCurrency, toCurrency, existingPrices) ==
    IF prices = <<>>
    THEN <<>>
    ELSE LET found == getPrice(priceMap, <<fromCurrency, toCurrency>>, Head(prices).date)
         IN  (IF found = NullSample \/ found.date \in existingPrices
              THEN <<>>
              ELSE <<Sample(Head(prices).date, Times(Head(prices).rate, found.rate))>>)
             \o newProjected(priceMap, Tail(prices), fromCurrency, toCurrency, existingPrices)

\* rate.equals(ZERO) ? ZERO : ONE.div(rate), on each projected sample
invertedProjected(projected) ==
    [k \in 1 .. Len(projected) |->
        Sample(projected[k].date,
               IF IsZeroRate(projected[k].rate) THEN Decimal(ZERO) ELSE Reciprocal(projected[k].rate))]

\* One iteration of the loop of project, for the key (base, fromCurrency).
projectBase(priceMap, base, fromCurrency, toCurrency) ==
    LET existing == ListOf(priceMap, <<base, toCurrency>>)
        added == newProjected(priceMap, priceMap.map[<<base, fromCurrency>>],
                              fromCurrency, toCurrency,
                              {existing[k].date : k \in 1 .. Len(existing)})
        withProjected == SetList(priceMap, <<base, toCurrency>>, SortByDate(existing \o added))
    IN  IF added = <<>>
        THEN priceMap
        ELSE SetList(withProjected, <<toCurrency, base>>,
                     SortByDate(ListOf(withProjected, <<toCurrency, base>>)
                                    \o invertedProjected(added)))

\* The loop of project over the keys whose quote is fromCurrency.
RECURSIVE projectLoop(_, _, _, _)
projectLoop(priceMap, bases, fromCurrency, toCurrency) ==
    IF bases = {}
    THEN priceMap
    ELSE LET base == CHOOSE b \in bases : TRUE
         IN  projectLoop(projectBase(priceMap, base, fromCurrency, toCurrency),
                         bases \ {base}, fromCurrency, toCurrency)

\* project(origPriceMap, fromCurrency, toCurrency): the map it returns
project(origPriceMap, fromCurrency, toCurrency) ==
    IF fromCurrency = toCurrency
    THEN origPriceMap
    ELSE projectLoop([origPriceMap EXCEPT !.forwardPairs = {}],
                     {bq[1] : bq \in {k \in origPriceMap.keys : k[2] = fromCurrency}},
                     fromCurrency, toCurrency)

\* new Map(origPriceMap) copies the keys and shares the lists: a list of
\* origPriceMap that project pushes to and sorts is changed in both maps.
SharedLists(origPriceMap, returned) ==
    [origPriceMap EXCEPT !.map = [k \in origPriceMap.keys |-> returned.map[k]]]

ProjectCall ==
    /\ opc = "done"
    /\ \E fromCurrency \in PriceCurrencies, toCurrency \in PriceCurrencies :
          LET returned == project(opOut, fromCurrency, toCurrency)
          IN  /\ opErrors' = returned
              /\ opOut' = SharedLists(opOut, returned)
              /\ pquery' = <<fromCurrency, toCurrency>>
    /\ opc' = "projected"
    /\ UNCHANGED <<opEntries, pquote, invVars, valVars, loadVars>>

ProjectNext ==
    \/ BuildPriceMapCall
    \/ ProjectCall

\* Prices of EUR in CAD, of USD in EUR and of USD in CAD.
ProjectDirectives ==
    {Price(1, "EUR", MkAmount(2, "CAD")),
     Price(3, "EUR", MkAmount(2, "CAD")),
     Price(1, "USD", MkAmount(2, "EUR")),
     Price(2, "USD", MkAmount(2, "EUR")),
     Price(3, "USD", MkAmount(4, "CAD"))}

ProjectLists == ListsUpTo(ProjectDirectives, MaxLedger)

SpecProject == OpInit(ProjectLists) /\ [][ProjectNext]_vars

\* C29: after project the map that was passed in has the pairs it had and
\* every list of it holds the samples it held, in the same order.
C29_ProjectFrame ==
    opc = "projected" => opOut = buildPriceMap(opEntries)


----------------------------------------------------------------------------
(* Claims about the termination of the include work-list *)

\* The while loop of _parseRecursive and the steps of _load run on: a step
\* that can be taken is taken.
MaxIncludeLedger == 1

\* The loads whose main file holds few directives: the directives of a file
\* take no part in the loop over the work-list.
IncludeInit == LoadInit /\ Len(fs[MainFile].entries) <= MaxIncludeLedger

SpecLoadFair == IncludeInit /\ [][LoadNext]_vars /\ WF_vars(LoadNext)

\* One iteration of the loop removes the first source, and pushes sources
\* only when it parses a file that was not seen before.
IterationShrinks ==
    (lpc = "parse" /\ sourceStack' # sourceStack) =>
        /\ Len(sourceStack) > 0
        /\ SubSeq(sourceStack', 1, Len(sourceStack) - 1) = Tail(sourceStack)
        /\ Len(sourceStack') > Len(sourceStack) - 1 =>
              /\ Head(sourceStack).isFile
              /\ Resolve(Head(sourceStack).source) \notin filenamesSeen
              /\ Resolve(Head(sourceStack).source) \in filenamesSeen'

\* C30: the load of a file, whatever the files include, comes to an empty
\* work-list and leaves the parse phase; each iteration removes one source
\* and pushes new ones only while parsing a file not seen before.
FileLoad == Len(sourceStack) > 0 /\ sourceStack[1].isFile

=============================================================================
